---- MODULE Spec2Model ----
(***************************************************************************)
(* Model of the bias/fallacy detector: the rule-based detection engine     *)
(* (RuleBasedDetector), the LLM-backed agents at their try/catch boundary  *)
(* and the LangGraph pipeline of BiasDetectionWorkflow.                    *)
(*                                                                         *)
(* Numbers: confidences and weights are fixed-point, in thousandths        *)
(* (0.5 is 500, 0.95 is 950).  The source computes in IEEE doubles; the    *)
(* model is exact decimal arithmetic, so a property that depends on the    *)
(* last bit of a double is outside what is checked here.                   *)
(* Text: strings are TLA+ strings; offsets are 0-based as in the source.   *)
(*                                                                         *)
(* Next to some operators stands a faulty variant of it (isExcludedNever   *)
(* next to isExcluded, ...), differing from it in one respect: a property  *)
(* that holds of the operator is shown to fail of the variant.             *)
(***************************************************************************)
EXTENDS Integers, Sequences, FiniteSets, TLC

(***************************************************************************)
(* Generic helpers                                                         *)
(***************************************************************************)
Min(a, b) == IF a <= b THEN a ELSE b

Max(a, b) == IF a >= b THEN a ELSE b

\* Array.prototype.filter, order preserved
Filter(seq, P(_)) == SelectSeq(seq, P)

\* Array.prototype.map
Map(seq, F(_)) == [i \in 1..Len(seq) |-> F(seq[i])]

\* F(v), with v evaluated once, before F is applied
Eager(F(_), v) == CHOOSE r \in { F(x) : x \in {v} } : TRUE

\* Array.prototype.flatMap / concatenation of a sequence of sequences
RECURSIVE FlattenFrom(_, _)
FlattenFrom(seqs, i) ==
  IF i > Len(seqs) THEN <<>> ELSE seqs[i] \o FlattenFrom(seqs, i + 1)

Flatten(seqs) == Eager(LAMBDA s : FlattenFrom(s, 1), seqs)

RECURSIVE SumSeq(_)
SumSeq(seq) == IF seq = <<>> THEN 0 ELSE Head(seq) + SumSeq(Tail(seq))

\* Array.prototype.some
Some(seq, P(_)) == \E i \in 1..Len(seq) : P(seq[i])

\* the k-th smallest member of a set of integers
Nth(S, k) == CHOOSE x \in S : Cardinality({y \in S : y <= x}) = k

\* the concatenation of the strings pieces[lo] .. pieces[hi]
ConcatRange[pieces \in Seq(STRING), lo \in Nat, hi \in Nat] ==
  IF lo > hi THEN ""
  ELSE IF lo = hi THEN pieces[lo]
  ELSE ConcatRange[pieces, lo, (lo + hi) \div 2]
         \o ConcatRange[pieces, (lo + hi) \div 2 + 1, hi]

Concat(pieces) == ConcatRange[pieces, 1, Len(pieces)]

\* the character of s at the 1-based position i
CharAt(s, i) == SubSeq(s, i, i)

(***************************************************************************)
(* JavaScript string operations used by the detector                       *)
(***************************************************************************)
LowerChar(c) ==
  CASE c = "A" -> "a" [] c = "B" -> "b" [] c = "C" -> "c" [] c = "D" -> "d"
    [] c = "E" -> "e" [] c = "F" -> "f" [] c = "G" -> "g" [] c = "H" -> "h"
    [] c = "I" -> "i" [] c = "J" -> "j" [] c = "K" -> "k" [] c = "L" -> "l"
    [] c = "M" -> "m" [] c = "N" -> "n" [] c = "O" -> "o" [] c = "P" -> "p"
    [] c = "Q" -> "q" [] c = "R" -> "r" [] c = "S" -> "s" [] c = "T" -> "t"
    [] c = "U" -> "u" [] c = "V" -> "v" [] c = "W" -> "w" [] c = "X" -> "x"
    [] c = "Y" -> "y" [] c = "Z" -> "z" [] OTHER -> c

\* String.prototype.toLowerCase
ToLowerCase[s \in STRING] ==
  Concat([i \in 1..Len(s) |-> LowerChar(CharAt(s, i))])

\* String.prototype.substring(a, b): both ends clamped to [0, length] and
\* swapped when a > b; 0-based, end exclusive.
Substring(s, a, b) ==
  LET ca == Min(Max(a, 0), Len(s))
      cb == Min(Max(b, 0), Len(s))
      lo == Min(ca, cb)
      hi == Max(ca, cb)
  IN  SubSeq(s, lo + 1, hi)

\* the 0-based offsets at which p occurs in s
Occurrences(s, p) ==
  { i \in 0..(Len(s) - Len(p)) : SubSeq(s, i + 1, i + Len(p)) = p }

\* String.prototype.indexOf: first occurrence, or -1
IndexOf(s, p) ==
  Eager(LAMBDA occ :
          IF occ = {} THEN -1 ELSE CHOOSE i \in occ : \A j \in occ : i <= j,
        Occurrences(s, p))

\* String.prototype.includes
Includes(s, p) == Occurrences(s, p) # {}

IsSpace(c) == c \in {" ", "\t", "\n"}

\* String.prototype.trim
TrimStart[s \in STRING] ==
  LET solid == { i \in 1..Len(s) : ~IsSpace(CharAt(s, i)) }
  IN  IF solid = {} THEN "" ELSE SubSeq(s, Nth(solid, 1), Len(s))

TrimEnd[s \in STRING] ==
  LET solid == { i \in 1..Len(s) : ~IsSpace(CharAt(s, i)) }
  IN  IF solid = {} THEN "" ELSE SubSeq(s, 1, Nth(solid, Cardinality(solid)))

Trim(s) == TrimEnd[TrimStart[s]]

(***************************************************************************)
(* Regular expressions.  The library's patterns are modelled in the        *)
(* dialect  literal ( "|" literal )* : a top-level alternation of literal  *)
(* phrases.  new RegExp(src, "i") compiles the source to its ordered       *)
(* alternatives; matching is case-insensitive and leftmost, and at one     *)
(* position the earliest alternative wins, as in a backtracking engine.    *)
(***************************************************************************)
\* the phrases between the "|" of the source, in order
SplitAlternatives[src \in STRING] ==
  LET bars == { i \in 1..Len(src) : CharAt(src, i) = "|" }
      n    == Cardinality(bars)
      From(k) == IF k = 1 THEN 1 ELSE Nth(bars, k - 1) + 1
      To(k)   == IF k = n + 1 THEN Len(src) ELSE Nth(bars, k) - 1
  IN  [k \in 1..(n + 1) |-> SubSeq(src, From(k), To(k))]

\* new RegExp(src, "i")
NewRegExp(src) ==
  [source |-> src,
   alternatives |-> Map(SplitAlternatives[src], LAMBDA a : ToLowerCase[a])]

\* RegExp.prototype.toString
RegexToString(re) == "/" \o re.source \o "/i"

\* new RegExp(src, "i") throws a SyntaxError.  Of the ways a source can be
\* malformed the model has one: a parenthesis that is not balanced.
Malformed(src) ==
  LET Opened(i) == Cardinality({ k \in 1..i : CharAt(src, k) = "(" })
      Closed(i) == Cardinality({ k \in 1..i : CharAt(src, k) = ")" })
  IN  \/ Opened(Len(src)) # Closed(Len(src))
      \/ \E i \in 1..Len(src) : Closed(i) > Opened(i)

\* offsets at which some alternative of re matches s
RegexOffsets(re, s) ==
  LET lower == ToLowerCase[s]
  IN  UNION { Occurrences(lower, re.alternatives[k]) :
                k \in 1..Len(re.alternatives) }

\* RegExp.prototype.test
RegexTest(re, s) == RegexOffsets(re, s) # {}

\* String.prototype.match with a non-global regex: the first match only,
\* as [found, index, text]
RegexMatch(re, s) ==
  LET lower == ToLowerCase[s]
      offs == RegexOffsets(re, s)
  IN  IF offs = {} THEN [found |-> FALSE, index |-> -1, text |-> ""]
      ELSE LET i == CHOOSE o \in offs : \A j \in offs : o <= j
               k == CHOOSE a \in 1..Len(re.alternatives) :
                      /\ i \in Occurrences(lower, re.alternatives[a])
                      /\ \A b \in 1..(a - 1) :
                           i \notin Occurrences(lower, re.alternatives[b])
           IN  [found |-> TRUE, index |-> i,
                text |-> SubSeq(s, i + 1, i + Len(re.alternatives[k]))]

(***************************************************************************)
(* The pattern library the detector is constructed with: the shape of      *)
(* biases_fallacies.json, cut down to two biases and one fallacy.  An      *)
(* optional field that is absent is modelled by its empty list, which the  *)
(* scorer treats the same way (nothing to add or subtract, no exclusion).  *)
(***************************************************************************)
GlobalModifiers ==
  [high_confidence_terms |-> <<"clearly">>,
   negation_terms        |-> <<"not", "never">>,
   uncertainty_terms     |-> <<"maybe">>,
   hedging_terms         |-> <<"quite">>]

NoClues == [positive |-> <<>>, negative |-> <<>>]

NoModifiers ==
  [bias_specific_terms |-> <<>>, high_confidence_terms |-> <<>>,
   negation_terms |-> <<>>, uncertainty_terms |-> <<>>]

ConfirmationBias ==
  [name |-> "Confirmation Bias",
   description |-> "Favouring information that confirms prior beliefs",
   patterns |->
     << [regex |-> "knew this", weight |-> 700,
         description |-> "Retroactive prediction claims"],
        [regex |-> "as i said|as i expected", weight |-> 800,
         description |-> "Self-reinforcing predictions"] >>,
   context_clues |-> [positive |-> <<"evidence">>,
                      negative |-> <<"surprised">>],
   confidence_modifiers |-> NoModifiers,
   exclusions |-> << [pattern |-> "based on data|based on research",
                      reason |-> "Factual basis reduces bias likelihood"] >>]

HindsightBias ==
  [name |-> "Hindsight Bias",
   description |-> "Seeing past events as having been predictable",
   patterns |->
     << [regex |-> "was obvious", weight |-> 600,
         description |-> "Claims of obviousness after the fact"] >>,
   context_clues |-> NoClues,
   confidence_modifiers |->
     [bias_specific_terms |-> <<"in hindsight">>,
      high_confidence_terms |-> <<"obviously">>,
      negation_terms |-> <<"hardly">>,
      uncertainty_terms |-> <<"perhaps">>],
   exclusions |-> <<>>]

AdHominem ==
  [name |-> "Ad Hominem",
   description |-> "Attacking the person instead of their argument",
   patterns |->
     << [regex |-> "too young|too old", weight |-> 900,
         description |-> "Age-based dismissal"] >>,
   context_clues |-> [positive |-> <<"personal">>,
                      negative |-> <<"argument">>],
   confidence_modifiers |-> NoModifiers,
   exclusions |-> <<>>]

BiasesConfig ==
  [global_confidence_modifiers |-> GlobalModifiers,
   biases    |-> <<ConfirmationBias, HindsightBias>>,
   fallacies |-> <<AdHominem>>]

(***************************************************************************)
(* RuleBasedDetector                                                       *)
(***************************************************************************)
\* compilePatterns: every definition gets its patterns compiled, in order
CompilePattern(patternObj) ==
  [regex |-> NewRegExp(patternObj.regex),
   weight |-> patternObj.weight,
   description |-> patternObj.description]

CompileItem(item) ==
  [name |-> item.name, description |-> item.description,
   patterns |-> item.patterns, context_clues |-> item.context_clues,
   confidence_modifiers |-> item.confidence_modifiers,
   exclusions |-> item.exclusions,
   compiledPatterns |-> Map(item.patterns, CompilePattern)]

\* compilePatterns that skips the definitions without patterns
compilePatternsSkippingEmpty(items) ==
  Map(SelectSeq(items, LAMBDA item : item.patterns # <<>>), CompileItem)

compilePatterns(items) == Map(items, CompileItem)

\* compilePatterns throws: new RegExp rejects one of the match patterns
compilePatternsThrows(items) ==
  \E i \in 1..Len(items) :
    \E k \in 1..Len(items[i].patterns) : Malformed(items[i].patterns[k].regex)

\* the detector's fields after its constructor has run
compiledData ==
  [biases    |-> compilePatterns(BiasesConfig.biases),
   fallacies |-> compilePatterns(BiasesConfig.fallacies)]

globalModifiers == BiasesConfig.global_confidence_modifiers

\* new RuleBasedDetector(biasesFallaciesData): the fields of the detector,
\* or the exception of compilePatterns
NewRuleBasedDetector(biasesFallaciesData) ==
  IF \/ compilePatternsThrows(biasesFallaciesData.biases)
     \/ compilePatternsThrows(biasesFallaciesData.fallacies)
  THEN [threw |-> TRUE, value |-> <<>>]
  ELSE [threw |-> FALSE,
        value |->
          [globalModifiers |-> biasesFallaciesData.global_confidence_modifiers,
           compiledData |->
             [biases    |-> compilePatterns(biasesFallaciesData.biases),
              fallacies |-> compilePatterns(biasesFallaciesData.fallacies)]]]

\* matchPatterns: one match at most per compiled pattern, in pattern order
MatchOf(sentence, pattern) ==
  LET m == RegexMatch(pattern.regex, sentence)
  IN  IF m.found
      THEN << [pattern |-> RegexToString(pattern.regex),
               matched |-> m.text,
               index   |-> m.index,
               length  |-> Len(m.text),
               weight  |-> pattern.weight] >>
      ELSE <<>>

\* matchPatterns whose matches are ordered by their offset in the sentence
matchPatternsByOffset(sentence, item) ==
  LET found == Flatten([i \in 1..Len(item.compiledPatterns) |->
                          MatchOf(sentence, item.compiledPatterns[i])])
      Before(i, j) == \/ found[i].index < found[j].index
                      \/ found[i].index = found[j].index /\ i < j
      Rank(i) == Cardinality({ j \in 1..Len(found) : Before(j, i) }) + 1
  IN  [p \in 1..Len(found) |->
         found[CHOOSE i \in 1..Len(found) : Rank(i) = p]]

matchPatterns(sentence, item) ==
  Flatten([i \in 1..Len(item.compiledPatterns) |->
             MatchOf(sentence, item.compiledPatterns[i])])

\* isExcluded that never excludes
isExcludedNever(sentence, item) == FALSE

\* isExcluded: some exclusion pattern matches the sentence
isExcluded(sentence, item) ==
  \E i \in 1..Len(item.exclusions) :
    RegexTest(NewRegExp(item.exclusions[i].pattern), sentence)

\* isExcluded throws: the exclusion patterns are compiled one by one as
\* some() visits them, and it visits them until one matches
isExcludedThrows(sentence, item) ==
  \E i \in 1..Len(item.exclusions) :
    /\ Malformed(item.exclusions[i].pattern)
    /\ \A j \in 1..(i - 1) :
         /\ ~Malformed(item.exclusions[j].pattern)
         /\ ~RegexTest(NewRegExp(item.exclusions[j].pattern), sentence)

(***************************************************************************)
(* Confidence Scorer                                                       *)
(***************************************************************************)
BaseConfidence == 500

FallbackWeight == 500

MaxWeightContribution == 400

MinConfidence == 100

MaxConfidence == 950

WindowSize == 5

CharsPerWord == 5

ClueStep == 50

HighConfidenceStep == 50

NegationStep == 100

UncertaintyStep == 30

HedgingStep == 20

BiasSpecificStep == 70

\* x * 0.2 in thousandths (exact for the multiples of 0.005 used here)
Scale02(x) == (x * 2) \div 10

\* match.weight ?? 0.5 : only an absent weight is replaced
WeightOrFallbackIfAbsent(match) ==
  IF "weight" \notin DOMAIN match THEN FallbackWeight ELSE match.weight

\* match.weight || 0.5 : an absent weight and a weight of 0 are both falsy
WeightOrFallback(match) ==
  IF "weight" \notin DOMAIN match THEN FallbackWeight
  ELSE IF match.weight = 0 THEN FallbackWeight ELSE match.weight

\* isClueNearMatch that looks for the clue in the whole sentence
isClueAnywhere(sentence, match, clue) ==
  Includes(ToLowerCase[sentence], ToLowerCase[clue])

\* isClueNearMatch: the clue occurs in the window of WindowSize * 5
\* characters on each side of the match
isClueNearMatch(sentence, match, clue) ==
  LET matchStart   == match.index
      matchEnd     == match.index + match.length
      contextStart == Max(0, matchStart - WindowSize * CharsPerWord)
      contextEnd   == Min(Len(sentence), matchEnd + WindowSize * CharsPerWord)
      context      == ToLowerCase[Substring(sentence, contextStart, contextEnd)]
  IN  Includes(context, ToLowerCase[clue])

\* terms.filter(term => matches.some(m => isClueNearMatch(...))).length
NearCount(terms, sentence, matches) ==
  LET Near(term) == \E k \in 1..Len(matches) :
                       isClueNearMatch(sentence, matches[k], term)
  IN  Len(Filter(terms, Near))

\* terms.filter(term => lowerSentence.includes(term.toLowerCase())).length
AnywhereCount(terms, sentence) ==
  LET lowerSentence == ToLowerCase[sentence]
      Present(term) == Includes(lowerSentence, ToLowerCase[term])
  IN  Len(Filter(terms, Present))

applyContextClues(confidence, sentence, matches, item) ==
  confidence
    + NearCount(item.context_clues.positive, sentence, matches) * ClueStep
    - NearCount(item.context_clues.negative, sentence, matches) * ClueStep

applyGlobalModifiers(confidence, sentence, matches) ==
  confidence
    + AnywhereCount(globalModifiers.high_confidence_terms, sentence)
        * HighConfidenceStep
    - NearCount(globalModifiers.negation_terms, sentence, matches)
        * NegationStep
    - AnywhereCount(globalModifiers.uncertainty_terms, sentence)
        * UncertaintyStep
    - AnywhereCount(globalModifiers.hedging_terms, sentence) * HedgingStep

applyBiasSpecificModifiers(confidence, sentence, matches, modifiers) ==
  confidence
    + AnywhereCount(modifiers.bias_specific_terms, sentence) * BiasSpecificStep
    + AnywhereCount(modifiers.high_confidence_terms, sentence)
        * HighConfidenceStep
    - NearCount(modifiers.negation_terms, sentence, matches) * NegationStep
    - AnywhereCount(modifiers.uncertainty_terms, sentence) * UncertaintyStep

\* ClampConfidence without the lower bound
ClampConfidenceAbove(confidence) == Min(confidence, MaxConfidence)

\* Math.min(Math.max(0.1, confidence), 0.95)
ClampConfidence(confidence) ==
  Min(Max(MinConfidence, confidence), MaxConfidence)

calculateConfidence(matches, sentence, item) ==
  LET weightedScore == SumSeq(Map(matches, WeightOrFallback))
      c0 == BaseConfidence + Min(Scale02(weightedScore), MaxWeightContribution)
      c1 == applyContextClues(c0, sentence, matches, item)
      c2 == applyGlobalModifiers(c1, sentence, matches)
      c3 == applyBiasSpecificModifiers(c2, sentence, matches,
                                       item.confidence_modifiers)
  IN  ClampConfidence(c3)

(***************************************************************************)
(* Sentence / text detector                                                *)
(***************************************************************************)
DetectionFilters == {"all", "biases", "fallacies"}

\* the detection one definition yields for one sentence: none or one
DetectItem(sentence, item, type) ==
  LET itemMatches == matchPatterns(sentence, item)
  IN  IF Len(itemMatches) > 0 /\ ~isExcluded(sentence, item)
      THEN << [type |-> type,
               name |-> item.name,
               description |-> item.description,
               matches |-> itemMatches,
               confidence |-> calculateConfidence(itemMatches, sentence,
                                                  item)] >>
      ELSE <<>>

DetectCategory(sentence, items, type) ==
  Flatten([i \in 1..Len(items) |-> DetectItem(sentence, items[i], type)])

\* detectInSentence that runs the fallacies whatever the filter
detectInSentenceAllFallacies(data, sentence, filter) ==
  IF Len(sentence) = 0 \/ Len(Trim(sentence)) = 0 THEN <<>>
  ELSE (IF filter \in {"all", "biases"}
        THEN DetectCategory(sentence, data.biases, "bias")
        ELSE <<>>)
       \o DetectCategory(sentence, data.fallacies, "fallacy")

\* detectInSentence of a detector whose compiledData is data
detectInSentenceOf(data, sentence, filter) ==
  IF Len(sentence) = 0 \/ Len(Trim(sentence)) = 0 THEN <<>>
  ELSE (IF filter \in {"all", "biases"}
        THEN DetectCategory(sentence, data.biases, "bias")
        ELSE <<>>)
       \o
       (IF filter \in {"all", "fallacies"}
        THEN DetectCategory(sentence, data.fallacies, "fallacy")
        ELSE <<>>)

\* detectInSentence of the detector built from the library
detectInSentence(sentence, filter) ==
  detectInSentenceOf(compiledData, sentence, filter)

\* detectInSentence throws: isExcluded is reached for a definition with a
\* match, and throws
detectInSentenceThrows(data, sentence, filter) ==
  /\ ~(Len(sentence) = 0 \/ Len(Trim(sentence)) = 0)
  /\ \/ /\ filter \in {"all", "biases"}
        /\ \E i \in 1..Len(data.biases) :
             /\ Len(matchPatterns(sentence, data.biases[i])) > 0
             /\ isExcludedThrows(sentence, data.biases[i])
     \/ /\ filter \in {"all", "fallacies"}
        /\ \E i \in 1..Len(data.fallacies) :
             /\ Len(matchPatterns(sentence, data.fallacies[i])) > 0
             /\ isExcludedThrows(sentence, data.fallacies[i])

\* an argument that may be null or undefined: <<>> when it is, <<v>> for v
Absent == <<>>

\* the three public methods called with an argument that may be absent:
\* the !sentence, !text and !detections tests
detectInSentenceArg(arg, filter) ==
  IF arg = Absent THEN <<>> ELSE detectInSentence(arg[1], filter)

(***************************************************************************)
(* TextTokenizer.splitIntoSentences, which hands the text to the           *)
(* compromise library (nlp(text).sentences()).  For the texts used here,   *)
(* plain sentences that end in a full stop, a sentence ends at a "." that  *)
(* is followed by white space or by the end of the text; the pieces are    *)
(* trimmed and empty pieces dropped.                                       *)
(***************************************************************************)
SentenceEnds(text) ==
  { i \in 1..Len(text) :
      /\ CharAt(text, i) = "."
      /\ (i = Len(text) \/ IsSpace(CharAt(text, i + 1))) }

splitIntoSentences[text \in STRING] ==
  LET ends == SentenceEnds(text)
      n    == Cardinality(ends)
      From(k) == IF k = 1 THEN 1 ELSE Nth(ends, k - 1) + 1
      To(k)   == IF k = n + 1 THEN Len(text) ELSE Nth(ends, k)
      pieces  == [k \in 1..(n + 1) |-> Trim(SubSeq(text, From(k), To(k)))]
  IN  SelectSeq(pieces, LAMBDA piece : Len(piece) > 0)

(***************************************************************************)
(* Context Reinforcer.  The detection objects are mutated in place; the    *)
(* operators thread the list through the loops in the source's order.      *)
(***************************************************************************)
ContextBoost == 50

\* find that compares the names only
FindMatchingByName(dets, cur) ==
  LET hits == { k \in 1..Len(dets) : dets[k].name = cur.name }
  IN  IF hits = {} THEN 0 ELSE CHOOSE k \in hits : \A h \in hits : k <= h

\* next.detections.find(d => d.type === cur.type && d.name === cur.name):
\* index of the first such detection, 0 when there is none
FindMatching(dets, cur) ==
  LET hits == { k \in 1..Len(dets) :
                  dets[k].type = cur.type /\ dets[k].name = cur.name }
  IN  IF hits = {} THEN 0 ELSE CHOOSE k \in hits : \A h \in hits : k <= h

\* the boost without the cap
BoostedUncapped(d) == [d EXCEPT !.confidence = d.confidence + ContextBoost]

Boosted(d) ==
  [d EXCEPT !.confidence = Min(MaxConfidence, d.confidence + ContextBoost)]

\* current.detections.forEach(...) from index j on; returns <<current, next>>
RECURSIVE ReinforcePair(_, _, _)
ReinforcePair(current, next, j) ==
  IF j > Len(current.detections) THEN <<current, next>>
  ELSE LET k == FindMatching(next.detections, current.detections[j])
       IN  IF k = 0 THEN ReinforcePair(current, next, j + 1)
           ELSE ReinforcePair(
                  [current EXCEPT
                     !.detections[j] = Boosted(current.detections[j])],
                  [next EXCEPT
                     !.detections[k] = Boosted(next.detections[k])],
                  j + 1)

\* for (let i = 0; i < enhancedDetections.length - 1; i++)   (i is 1-based)
RECURSIVE ReinforceFrom(_, _)
ReinforceFrom(list, i) ==
  IF i > Len(list) - 1 THEN list
  ELSE LET pair == ReinforcePair(list[i], list[i + 1], 1)
       IN  ReinforceFrom([list EXCEPT ![i] = pair[1], ![i + 1] = pair[2]],
                         i + 1)

\* analyzeContext that makes the pass over the pairs twice
analyzeContextTwoPasses(detections) ==
  IF Len(detections) <= 1 THEN detections
  ELSE ReinforceFrom(ReinforceFrom(detections, 1), 1)

analyzeContext(detections) ==
  IF Len(detections) <= 1 THEN detections ELSE ReinforceFrom(detections, 1)

\* SentenceResult that keeps the sentences without a detection
SentenceResultAlways(sentences, i) ==
  << [sentence |-> sentences[i],
      sentenceIndex |-> i - 1,
      detections |-> detectInSentence(sentences[i], "all")] >>

\* SentenceResult that numbers the sentences from 1
SentenceResultOneBased(sentences, i) ==
  LET sentenceResults == detectInSentence(sentences[i], "all")
  IN  IF Len(sentenceResults) > 0
      THEN << [sentence |-> sentences[i],
               sentenceIndex |-> i,
               detections |-> sentenceResults] >>
      ELSE <<>>

\* detectInText: per sentence detection, empty sentences dropped, 0-based
\* sentence index kept, then the Context Reinforcer
SentenceResult(sentences, i) ==
  LET sentenceResults == detectInSentence(sentences[i], "all")
  IN  IF Len(sentenceResults) > 0
      THEN << [sentence |-> sentences[i],
               sentenceIndex |-> i - 1,
               detections |-> sentenceResults] >>
      ELSE <<>>

detectInText(text) ==
  IF Len(text) = 0 THEN <<>>
  ELSE LET sentences == splitIntoSentences[text]
       IN  analyzeContext(
             Flatten([i \in 1..Len(sentences) |->
                        SentenceResult(sentences, i)]))

detectInTextArg(arg) == IF arg = Absent THEN <<>> ELSE detectInText(arg[1])

(***************************************************************************)
(* Summary Aggregator.  The two dictionaries are modelled as sequences of  *)
(* entries in insertion order, which is the order Object.entries yields.   *)
(***************************************************************************)
EntryIndex(entries, name) ==
  LET hits == { k \in 1..Len(entries) : entries[k].name = name }
  IN  IF hits = {} THEN 0 ELSE CHOOSE k \in hits : TRUE

\* Accumulate that keeps the latest confidence instead of the greatest
AccumulateLatest(entries, item) ==
  LET k == EntryIndex(entries, item.name)
  IN  IF k = 0
      THEN Append(entries,
                  [name |-> item.name, description |-> item.description,
                   count |-> 1, confidence |-> item.confidence])
      ELSE [entries EXCEPT
              ![k].count = @ + 1,
              ![k].confidence = item.confidence]

\* byName[item.name] created on first sight, then count += 1 and
\* confidence = Math.max(confidence, item.confidence)
Accumulate(entries, item) ==
  LET k == EntryIndex(entries, item.name)
  IN  IF k = 0
      THEN Append(entries,
                  [name |-> item.name, description |-> item.description,
                   count |-> 1, confidence |-> Max(0, item.confidence)])
      ELSE [entries EXCEPT
              ![k].count = @ + 1,
              ![k].confidence = Max(@, item.confidence)]

RECURSIVE GroupByName(_, _, _)
GroupByName(items, type, entries) ==
  IF items = <<>> THEN entries
  ELSE GroupByName(Tail(items), type,
                   IF (type = "bias") = (Head(items).type = "bias")
                   THEN Accumulate(entries, Head(items))
                   ELSE entries)

\* the insertion of a sort that is not stable: an entry goes before the
\* entries of its own count
RECURSIVE InsertByCountUnstable(_, _)
InsertByCountUnstable(sorted, e) ==
  IF sorted = <<>> THEN <<e>>
  ELSE IF Head(sorted).count > e.count
       THEN <<Head(sorted)>> \o InsertByCountUnstable(Tail(sorted), e)
       ELSE <<e>> \o sorted

\* Array.prototype.sort((a, b) => b.count - a.count): stable, descending
RECURSIVE InsertByCount(_, _)
InsertByCount(sorted, e) ==
  IF sorted = <<>> THEN <<e>>
  ELSE IF Head(sorted).count >= e.count
       THEN <<Head(sorted)>> \o InsertByCount(Tail(sorted), e)
       ELSE <<e>> \o sorted

RECURSIVE SortByCount(_, _)
SortByCount(entries, sorted) ==
  IF entries = <<>> THEN sorted
  ELSE SortByCount(Tail(entries), InsertByCount(sorted, Head(entries)))

AllDetections(detections) ==
  Flatten([i \in 1..Len(detections) |-> detections[i].detections])

generateSummary(detections) ==
  IF Len(detections) = 0
  THEN [biasesFound |-> <<>>, fallaciesFound |-> <<>>]
  ELSE [biasesFound |->
          SortByCount(GroupByName(AllDetections(detections), "bias", <<>>),
                      <<>>),
        fallaciesFound |->
          SortByCount(GroupByName(AllDetections(detections), "fallacy", <<>>),
                      <<>>)]

generateSummaryArg(arg) ==
  IF arg = Absent THEN [biasesFound |-> <<>>, fallaciesFound |-> <<>>]
  ELSE generateSummary(arg[1])

(***************************************************************************)
(* TextCleaner.clean                                                       *)
(***************************************************************************)
DefaultCleanerOptions ==
  [removeUrls |-> TRUE, removePunctuation |-> FALSE, lowercase |-> TRUE]

StartsWith(s, p) == Len(s) >= Len(p) /\ SubSeq(s, 1, Len(p)) = p

\* the URL scheme of /https?:\/\/[^\s]+/ found at the head of s, or ""
UrlSchemeAt(s) ==
  LET HasBody(scheme) ==
        /\ StartsWith(s, scheme)
        /\ Len(s) > Len(scheme)
        /\ ~IsSpace(SubSeq(s, Len(scheme) + 1, Len(scheme) + 1))
  IN  IF HasBody("https://") THEN "https://"
      ELSE IF HasBody("http://") THEN "http://" ELSE ""

\* text.replace(/https?:\/\/[^\s]+/g, '')   (the pattern is case-sensitive)
\* a character is removed when a URL that starts at or before it runs up
\* to it without white space
RemoveUrls[s \in STRING] ==
  LET starts == { p \in 1..Len(s) : UrlSchemeAt(SubSeq(s, p, Len(s))) # "" }
      InUrl(i) == \E p \in starts :
                    p <= i /\ \A q \in p..i : ~IsSpace(CharAt(s, q))
  IN  Concat([i \in 1..Len(s) |-> IF InUrl(i) THEN "" ELSE CharAt(s, i)])

IsWordChar(c) ==
  c \in {"a", "b", "c", "d", "e", "f", "g", "h", "i", "j", "k", "l", "m",
         "n", "o", "p", "q", "r", "s", "t", "u", "v", "w", "x", "y", "z",
         "0", "1", "2", "3", "4", "5", "6", "7", "8", "9", "_"}
  \/ LowerChar(c) # c

\* text.replace(/[^\w\s]/g, '')
RemovePunctuation[s \in STRING] ==
  Concat([i \in 1..Len(s) |->
            IF IsWordChar(CharAt(s, i)) \/ IsSpace(CharAt(s, i))
            THEN CharAt(s, i) ELSE ""])

\* text.replace(/\s+/g, ' ')
CollapseSpaces[s \in STRING] ==
  Concat([i \in 1..Len(s) |->
            IF ~IsSpace(CharAt(s, i)) THEN CharAt(s, i)
            ELSE IF i > 1 /\ IsSpace(CharAt(s, i - 1)) THEN "" ELSE " "])

clean(text, options) ==
  IF Len(text) = 0 THEN ""
  ELSE LET t1 == IF options.removeUrls THEN RemoveUrls[text] ELSE text
           t2 == IF options.lowercase THEN ToLowerCase[t1] ELSE t1
           t3 == IF options.removePunctuation
                 THEN RemovePunctuation[t2] ELSE t2
       IN  Trim(CollapseSpaces[t3])

(***************************************************************************)
(* External collaborators.  Each LLM call has one of three outcomes: it    *)
(* answers with JSON of the requested shape ("ok"), it throws ("throw"),   *)
(* or it answers with text JSON.parse rejects ("garbage").  An agent       *)
(* method yields [threw, value]: threw is TRUE when an exception leaves    *)
(* the method, and value is what it returns otherwise.                     *)
(***************************************************************************)
Outcomes == {"ok", "throw", "garbage"}

Returned(v) == [threw |-> FALSE, value |-> v]

Thrown == [threw |-> TRUE, value |-> <<>>]

\* { ...r, ...ext }
Spread(r, ext) ==
  [k \in DOMAIN r \cup DOMAIN ext |-> IF k \in DOMAIN ext THEN ext[k] ELSE r[k]]

\* names.filter((v, i, a) => a.indexOf(v) === i), also Array.from(new Set(..))
Unique(seq) ==
  LET first == { i \in 1..Len(seq) : \A j \in 1..(i - 1) : seq[j] # seq[i] }
  IN  [k \in 1..Cardinality(first) |-> seq[Nth(first, k)]]

\* biases.find(b => b.name === name) || fallacies.find(f => f.name === name)
\* as a sequence holding the definition found, empty when there is none
getBiasConfig(name) ==
  LET IsNamed(item) == item.name = name
      inBiases    == Filter(BiasesConfig.biases, IsNamed)
      inFallacies == Filter(BiasesConfig.fallacies, IsNamed)
  IN  IF inBiases # <<>> THEN <<inBiases[1]>>
      ELSE IF inFallacies # <<>> THEN <<inFallacies[1]>> ELSE <<>>

(***************************************************************************)
(* LLMDetector.detectSubtleBiases                                          *)
(***************************************************************************)
\* the part of the prompt that depends on the rule-based detections
alreadyDetected(ruleBasedDetections) ==
  LET NameOf(d) == d.name IN Unique(Map(AllDetections(ruleBasedDetections), NameOf))

getDescriptionForBias(name) ==
  LET found == getBiasConfig(name)
  IN  IF found # <<>> THEN found[1].description ELSE "Description not found"

ToLLMDetection(d) ==
  [type |-> d.type,
   name |-> d.biasOrFallacyName,
   description |-> getDescriptionForBias(d.biasOrFallacyName),
   sentence |-> d.sentence,
   sentenceIndex |-> d.sentenceIndex,
   quotedText |-> d.quotedText,
   reasoning |-> d.reasoning,
   confidence |-> d.confidence,
   isSubtle |-> d.isSubtle]

\* try { invoke; JSON.parse; map } catch { return [] }
detectSubtleBiases(text, sentences, ruleBasedDetections, response) ==
  IF response.outcome = "ok"
  THEN Returned(Map(response.detections, ToLLMDetection))
  ELSE Returned(<<>>)

(***************************************************************************)
(* ValidationAgent.validateDetections                                      *)
(***************************************************************************)
ValidatedScore == 850

FallbackThreshold == 650

FlattenSentence(sd) ==
  LET Flat(d) ==
        Spread(d, [sentence |-> sd.sentence,
                   sentenceIndex |-> sd.sentenceIndex,
                   sourceDetector |-> "rule-based",
                   reasoning |->
                     "Pattern match: " \o
                       (IF Len(d.matches) > 0 /\ Len(d.matches[1].matched) > 0
                        THEN d.matches[1].matched ELSE "detected")])
  IN  Map(sd.detections, Flat)

flattenRuleBasedDetections(detections) ==
  Flatten(Map(detections, FlattenSentence))

\* a merged list in which an LLM detection that repeats a rule-based one
\* (same name, same sentence) is folded into it, marked "both"
MergedDetectionsFolded(ruleBasedDetections, llmDetections) ==
  LET flat == flattenRuleBasedDetections(ruleBasedDetections)
      Same(a, b) == a.name = b.name /\ a.sentence = b.sentence
      Repeated(d) == \E i \in 1..Len(flat) : Same(flat[i], d)
      Mark(r) == IF \E j \in 1..Len(llmDetections) : Same(r, llmDetections[j])
                 THEN [r EXCEPT !.sourceDetector = "both"] ELSE r
      FlatLLM(d) == Spread(d, [sourceDetector |-> "llm"])
  IN  Map(flat, Mark)
        \o Map(SelectSeq(llmDetections, LAMBDA d : ~Repeated(d)), FlatLLM)

\* the merged list submitted for validation: rule-based first, then LLM
MergedDetections(ruleBasedDetections, llmDetections) ==
  LET FlatLLM(d) == Spread(d, [sourceDetector |-> "llm"])
  IN  flattenRuleBasedDetections(ruleBasedDetections)
        \o Map(llmDetections, FlatLLM)

\* parsed.validations.forEach(v => if (v.isValid && allDetections[v.index]) push)
ApplyVerdicts(allDetections, validations) ==
  LET Accepted(v) == v.isValid /\ v.index >= 0 /\ v.index < Len(allDetections)
      Validated(v) ==
        Spread(allDetections[v.index + 1],
               [isValidated |-> TRUE,
                validationReasoning |-> v.reasoning,
                validationScore |-> ValidatedScore])
  IN  Map(Filter(validations, Accepted), Validated)

\* the catch branch with a threshold of 0.6
ThresholdFallbackLow(allDetections) ==
  LET Confident(d) == d.confidence >= 600
      AutoValidated(d) ==
        Spread(d, [isValidated |-> TRUE,
                   validationReasoning |->
                     "Auto-validated based on high confidence (fallback)",
                   validationScore |-> d.confidence])
  IN  Map(Filter(allDetections, Confident), AutoValidated)

\* the catch branch: keep what is confident enough, marked auto-validated
ThresholdFallback(allDetections) ==
  LET Confident(d) == d.confidence >= FallbackThreshold
      AutoValidated(d) ==
        Spread(d, [isValidated |-> TRUE,
                   validationReasoning |->
                     "Auto-validated based on high confidence (fallback)",
                   validationScore |-> d.confidence])
  IN  Map(Filter(allDetections, Confident), AutoValidated)

\* validateDetections without its catch: a failed call leaves the method
\* as an exception
validateDetectionsUncaught(ruleBasedDetections, llmDetections, fullText, response) ==
  LET Validate(allDetections) ==
        IF Len(allDetections) = 0 THEN Returned(<<>>)
        ELSE IF response.outcome = "ok"
             THEN Returned(ApplyVerdicts(allDetections, response.validations))
             ELSE Thrown
  IN  Eager(Validate, MergedDetections(ruleBasedDetections, llmDetections))

validateDetections(ruleBasedDetections, llmDetections, fullText, response) ==
  LET Validate(allDetections) ==
        IF Len(allDetections) = 0 THEN Returned(<<>>)
        ELSE IF response.outcome = "ok"
             THEN Returned(ApplyVerdicts(allDetections, response.validations))
             ELSE Returned(ThresholdFallback(allDetections))
  IN  Eager(Validate, MergedDetections(ruleBasedDetections, llmDetections))

(***************************************************************************)
(* ExplanationAgent                                                        *)
(***************************************************************************)
\* explainBias whose fallback does not consult the library
explainBiasGeneric(biasName, example, outcome) ==
  IF outcome = "ok"
  THEN Returned([biasOrFallacyName |-> biasName,
                 simpleExplanation |-> "LLM: what it is",
                 whyProblematic |-> "LLM: why it matters",
                 inContext |-> "LLM: how it appears here",
                 alternativeFraming |-> "LLM: a neutral phrasing"])
  ELSE Returned([biasOrFallacyName |-> biasName,
                 simpleExplanation |-> "A cognitive bias was detected.",
                 whyProblematic |->
                   "This can lead to distorted reasoning and manipulation.",
                 inContext |-> "This bias appears in: " \o example.sentence])

\* try { invoke; JSON.parse; build } catch { static fallback }
explainBias(biasName, example, outcome) ==
  LET biasConfig == getBiasConfig(biasName)
  IN  IF outcome = "ok"
      THEN Returned([biasOrFallacyName |-> biasName,
                     simpleExplanation |-> "LLM: what it is",
                     whyProblematic |-> "LLM: why it matters",
                     inContext |-> "LLM: how it appears here",
                     alternativeFraming |-> "LLM: a neutral phrasing"])
      ELSE Returned([biasOrFallacyName |-> biasName,
                     simpleExplanation |->
                       IF biasConfig # <<>> /\ Len(biasConfig[1].description) > 0
                       THEN biasConfig[1].description
                       ELSE "A cognitive bias was detected.",
                     whyProblematic |->
                       "This can lead to distorted reasoning and manipulation.",
                     inContext |-> "This bias appears in: " \o example.sentence])

\* biasDetections.reduce((best, cur) =>
\*   cur.confidence > best.confidence ? cur : best)
\* : the first of the detections with the greatest confidence
BestExample(biasDetections) ==
  LET top == { i \in 1..Len(biasDetections) :
                 \A j \in 1..Len(biasDetections) :
                   biasDetections[j].confidence
                     <= biasDetections[i].confidence }
  IN  biasDetections[Nth(top, 1)]

\* the names of the detections, repetitions kept
RepeatedNames(detections) == LET NameOf(d) == d.name IN Map(detections, NameOf)

UniqueNames(detections) ==
  LET NameOf(d) == d.name IN Unique(Map(detections, NameOf))

\* the loop over uniqueBiases; the result is the Map in insertion order,
\* outcomes[i] is the outcome of the i-th collaborator call
ExplainAll(detections, names, outcomes) ==
  LET Explain(i) ==
        LET IsNamed(d) == d.name = names[i]
        IN  explainBias(names[i],
                        Eager(BestExample, Filter(detections, IsNamed)),
                        outcomes[i])
      Entry(i) == [key |-> names[i], value |-> Explain(i).value]
  IN  IF \E i \in 1..Len(names) : Explain(i).threw THEN Thrown
      ELSE Returned([i \in 1..Len(names) |-> Entry(i)])

generateExplanations(detections, outcomes) ==
  LET Explanations(names) == ExplainAll(detections, names, outcomes)
  IN  Eager(Explanations, UniqueNames(detections))

(***************************************************************************)
(* FramingAnalysisAgent.analyzeArticleFraming                              *)
(***************************************************************************)
DefaultAnalysis ==
  [overallTone |-> "neutral",
   confidenceInTone |-> 500,
   primaryIntent |-> "Unable to determine",
   credibilityScore |-> 5,
   manipulationTechniques |-> <<>>,
   omittedPerspectives |-> <<>>,
   framingCategory |-> "neutral_reporting",
   emotionalLanguage |->
     [fearWords |-> <<>>, outrageTriggers |-> <<>>, loadedTerms |-> <<>>,
      overallEmotionalIntensity |-> 500],
   sourceCredibility |->
     [sourcesListed |-> <<>>, sourceTypes |-> <<>>, balanceScore |-> 500,
      concerns |-> <<>>]]

\* try { invoke; JSON.parse; return parsed } catch { return default }
analyzeArticleFraming(fullText, metadata, detections, response) ==
  IF response.outcome = "ok" THEN Returned(response.analysis)
  ELSE Returned(DefaultAnalysis)

(***************************************************************************)
(* BiasDetectionWorkflow: output formatting                                *)
(***************************************************************************)
HighSeverity == 800

MediumSeverity == 600

\* the grading with strict comparisons
SeverityOfStrict(confidence) ==
  IF confidence > HighSeverity THEN "high"
  ELSE IF confidence > MediumSeverity THEN "medium" ELSE "low"

SeverityOf(confidence) ==
  IF confidence >= HighSeverity THEN "high"
  ELSE IF confidence >= MediumSeverity THEN "medium" ELSE "low"

\* SegmentOf that makes a segment also for a sentence that is not found
SegmentOfFoundOrNot(text, detection) ==
  << [text |-> detection.sentence,
      startIndex |-> IndexOf(text, detection.sentence),
      endIndex |-> IndexOf(text, detection.sentence) + Len(detection.sentence),
      detections |-> <<detection>>,
      severity |-> SeverityOf(detection.confidence)] >>

SegmentOf(text, detection) ==
  Eager(LAMBDA sentenceIndex :
          IF sentenceIndex # -1
          THEN << [text |-> detection.sentence,
                   startIndex |-> sentenceIndex,
                   endIndex |-> sentenceIndex + Len(detection.sentence),
                   detections |-> <<detection>>,
                   severity |-> SeverityOf(detection.confidence)] >>
          ELSE <<>>,
        IndexOf(text, detection.sentence))

\* Array.prototype.sort((a, b) => a.startIndex - b.startIndex): stable
SortByStart(segments) ==
  LET Before(i, j) ==
        \/ segments[i].startIndex < segments[j].startIndex
        \/ segments[i].startIndex = segments[j].startIndex /\ i < j
      Rank(i) == Cardinality({ j \in 1..Len(segments) : Before(j, i) }) + 1
  IN  [p \in 1..Len(segments) |->
         segments[CHOOSE i \in 1..Len(segments) : Rank(i) = p]]

createHighlightedSegments(text, detections) ==
  Eager(SortByStart, Flatten([i \in 1..Len(detections) |->
                                SegmentOf(text, detections[i])]))

\* BiasDetectionWorkflow.generateSummary, the executive summary line
generateExecutiveSummary(state) ==
  LET IsBias(d) == d.type = "bias"
      IsFallacy(d) == d.type = "fallacy"
      analysis == state.articleAnalysis
  IN  "This article shows " \o analysis.overallTone
        \o " framing with a credibility score of "
        \o ToString(analysis.credibilityScore) \o "/10. "
        \o "Analysis detected " \o ToString(Len(state.validatedDetections))
        \o " instance(s) of bias or fallacy: "
        \o ToString(Len(Filter(state.validatedDetections, IsBias)))
        \o " cognitive bias(es) and "
        \o ToString(Len(Filter(state.validatedDetections, IsFallacy)))
        \o " logical fallacy(ies). "
        \o (IF Len(analysis.primaryIntent) > 0
            THEN "Primary intent: " \o analysis.primaryIntent ELSE "")

\* Array.from(state.explanations.values())
MapValues(m) == [i \in 1..Len(m) |-> m[i].value]

FormatOutput(state) ==
  [detections |-> state.validatedDetections,
   explanations |-> MapValues(state.explanations),
   articleAnalysis |-> state.articleAnalysis,
   highlightedText |->
     createHighlightedSegments(state.rawText, state.validatedDetections),
   summary |-> generateExecutiveSummary(state)]

(***************************************************************************)
(* BiasDetectionWorkflow: the LangGraph state graph.  A superstep runs     *)
(* every node whose predecessor finished in the previous superstep; each   *)
(* node reads the channel values as they were when the superstep began and *)
(* returns a delta; the deltas are applied when all nodes of the superstep *)
(* have finished, and two deltas for one channel are an error.             *)
(***************************************************************************)
Nodes ==
  {"preprocess", "ruleBasedDetection", "llmDetection", "validation",
   "generateExplanations", "analyzeFraming", "formatOutput"}

\* the graph with Validate wired to Preprocess instead of to the detectors
EdgesWithoutJoin ==
  [START                |-> {"preprocess"},
   preprocess           |-> {"ruleBasedDetection", "llmDetection",
                             "validation"},
   ruleBasedDetection   |-> {},
   llmDetection         |-> {},
   validation           |-> {"generateExplanations"},
   generateExplanations |-> {"analyzeFraming"},
   analyzeFraming       |-> {"formatOutput"},
   formatOutput         |-> {"END"}]

Edges ==
  [START                |-> {"preprocess"},
   preprocess           |-> {"ruleBasedDetection", "llmDetection"},
   ruleBasedDetection   |-> {"validation"},
   llmDetection         |-> {"validation"},
   validation           |-> {"generateExplanations"},
   generateExplanations |-> {"analyzeFraming"},
   analyzeFraming       |-> {"formatOutput"},
   formatOutput         |-> {"END"}]

Successors(nodes) == UNION { Edges[n] : n \in nodes }

Channels ==
  {"rawText", "metadata", "cleanedText", "sentences", "ruleBasedDetections",
   "llmDetections", "validatedDetections", "explanations", "articleAnalysis",
   "output"}

\* the record analyze() hands to workflow.invoke
InitialState(rawText, metadata) ==
  [rawText |-> rawText,
   metadata |-> metadata,
   cleanedText |-> "",
   sentences |-> <<>>,
   ruleBasedDetections |-> <<>>,
   llmDetections |-> <<>>,
   validatedDetections |-> <<>>,
   explanations |-> <<>>,
   articleAnalysis |-> <<>>,
   output |-> <<>>]

(***************************************************************************)
(* Inputs of one analysis request and the answers of the collaborators     *)
(***************************************************************************)
MaxSentences == 2

MaxVerdicts == 2

Catalogue ==
  {"I knew this.",
   "You are too young.",
   "Nice weather today."}

RECURSIVE Join(_)
Join(sentences) ==
  IF sentences = <<>> THEN ""
  ELSE IF Len(sentences) = 1 THEN sentences[1]
       ELSE sentences[1] \o " " \o Join(Tail(sentences))

Texts ==
  { Join(doc) : doc \in UNION { [1..n -> Catalogue] : n \in 0..MaxSentences } }

\* detectInText tabulated over the input texts: the detector is evaluated
\* once per text and RuleBasedDetectionNode looks its result up
DetectInTextTable == [text \in Texts |-> detectInText(text)] @@ <<>>

NoMetadata == [present |-> FALSE]

Metadatas ==
  {NoMetadata, [present |-> TRUE, title |-> "Title", source |-> "Source"]}

\* what the subtle-detection LLM may answer for a text
RawLlmDetection(sentence, sentenceIndex, name, confidence) ==
  [sentence |-> sentence, sentenceIndex |-> sentenceIndex,
   biasOrFallacyName |-> name, type |-> "bias",
   quotedText |-> "quoted", reasoning |-> "reasoning",
   confidence |-> confidence, isSubtle |-> TRUE]

LlmFindings ==
  { [name |-> "Confirmation Bias", confidence |-> 800],
    [name |-> "Loaded Language",   confidence |-> 550] }

LlmResponses(sentences) ==
  { [outcome |-> o, detections |-> <<>>] : o \in Outcomes }
  \cup
  { [outcome |-> "ok",
     detections |-> << RawLlmDetection(sentences[i], i - 1,
                                       f.name, f.confidence) >>] :
      i \in 1..Len(sentences), f \in LlmFindings }
  \cup
  { [outcome |-> "ok",
     detections |-> << RawLlmDetection("Not in the text.", 0,
                                       f.name, f.confidence) >>] :
      f \in LlmFindings }

\* what the validation LLM may answer for n submitted detections: the
\* first, the last and a non-existent detection found valid, and the first
\* found invalid
Verdicts(n) ==
  { [index |-> i, isValid |-> TRUE, reasoning |-> "verdict"] :
      i \in {0, n - 1, n} }
  \cup { [index |-> 0, isValid |-> FALSE, reasoning |-> "verdict"] }

ValidationResponses(n) ==
  { [outcome |-> o, validations |-> <<>>] : o \in Outcomes }
  \cup
  { [outcome |-> "ok", validations |-> vs] :
      vs \in UNION { [1..k -> Verdicts(n)] : k \in 1..MaxVerdicts } }

LeaningAnalysis ==
  [DefaultAnalysis EXCEPT !.overallTone = "left-leaning",
                          !.primaryIntent = "persuade",
                          !.credibilityScore = 7,
                          !.manipulationTechniques = <<"loaded language">>]

FramingResponses ==
  { [outcome |-> o, analysis |-> LeaningAnalysis] : o \in Outcomes }

(***************************************************************************)
(* State                                                                   *)
(***************************************************************************)
VARIABLES
  pc,        \* "idle", "running", "done" (analyze returned), "failed" (threw)
  state,     \* the channel values the nodes of the current superstep read
  staged,    \* state with the deltas of the finished nodes applied
  step,      \* the nodes of the current superstep
  todo,      \* those of them that have not finished
  written,   \* channels written in the current superstep
  trace,     \* history: the nodes in the order they finished
  calls,     \* history: what each collaborator was asked and how it answered
  call       \* the last direct call of a RuleBasedDetector method

vars == <<pc, state, staged, step, todo, written, trace, calls, call>>

pipelineVars == <<pc, state, staged, step, todo, written, trace, calls>>

NoCalls ==
  [llm |-> "none", alreadyDetected |-> <<>>, validation |-> "none",
   explanation |-> <<>>, framing |-> "none"]

NoCall == [op |-> "none"]

\* how a collaborator call ended, as the history keeps it
Answer(outcome) == IF outcome = "ok" THEN "ok" ELSE "failed"

Init ==
  /\ pc = "idle"
  /\ state = <<>>
  /\ staged = <<>>
  /\ step = {}
  /\ todo = {}
  /\ written = {}
  /\ trace = <<>>
  /\ calls = NoCalls
  /\ call = NoCall

(***************************************************************************)
(* analyze(rawText, metadata): builds the initial state and invokes the    *)
(* graph, whose first superstep is the successor of START.                 *)
(***************************************************************************)
Analyze ==
  /\ pc = "idle"
  /\ \E rawText \in Texts, metadata \in Metadatas :
       /\ state' = InitialState(rawText, metadata)
       /\ staged' = InitialState(rawText, metadata)
  /\ step' = Successors({"START"})
  /\ todo' = Successors({"START"})
  /\ written' = {}
  /\ pc' = "running"
  /\ UNCHANGED <<trace, calls, call>>

\* a node's function returned delta: stage it; when it was the last node of
\* the superstep, publish the staged channels and schedule the successors
NodeReturns(node, delta) ==
  IF DOMAIN delta \cap written # {}
  THEN /\ pc' = "failed"
       /\ UNCHANGED <<state, staged, step, todo, written, trace>>
  ELSE /\ trace' = Append(trace, node)
       /\ staged' = Spread(staged, delta)
       /\ IF todo = {node}
          THEN /\ state' = Spread(staged, delta)
               /\ step' = Successors(step) \ {"END"}
               /\ todo' = Successors(step) \ {"END"}
               /\ written' = {}
               /\ pc' = IF Successors(step) \ {"END"} = {}
                        THEN "done" ELSE "running"
          ELSE /\ todo' = todo \ {node}
               /\ written' = written \cup DOMAIN delta
               /\ UNCHANGED <<state, step, pc>>

\* a node's function threw: invoke rejects and so does analyze
NodeThrows ==
  /\ pc' = "failed"
  /\ UNCHANGED <<state, staged, step, todo, written, trace>>

NodeFinishes(node, result, delta) ==
  IF result.threw THEN NodeThrows ELSE NodeReturns(node, delta)

Scheduled(node) == pc = "running" /\ node \in todo

(***************************************************************************)
(* The seven nodes                                                         *)
(***************************************************************************)
PreprocessNode ==
  /\ Scheduled("preprocess")
  /\ NodeReturns("preprocess",
       [cleanedText |->
          clean(state.rawText,
                [removeUrls |-> FALSE, removePunctuation |-> FALSE,
                 lowercase |-> FALSE]),
        sentences |-> splitIntoSentences[state.rawText]])
  /\ UNCHANGED <<calls, call>>

\* ruleBasedDetectionNode that also resets llmDetections in its delta
RuleBasedDetectionNodeResettingLlm ==
  /\ Scheduled("ruleBasedDetection")
  /\ NodeReturns("ruleBasedDetection",
       [ruleBasedDetections |-> DetectInTextTable[state.rawText],
        llmDetections |-> <<>>])
  /\ UNCHANGED <<calls, call>>

RuleBasedDetectionNode ==
  /\ Scheduled("ruleBasedDetection")
  /\ NodeReturns("ruleBasedDetection",
       [ruleBasedDetections |-> DetectInTextTable[state.rawText]])
  /\ UNCHANGED <<calls, call>>

LlmDetectionNode ==
  /\ Scheduled("llmDetection")
  /\ \E response \in LlmResponses(state.sentences) :
       /\ calls' = [calls EXCEPT
                      !.llm = Answer(response.outcome),
                      !.alreadyDetected =
                         alreadyDetected(state.ruleBasedDetections)]
       /\ \E llmDetections \in
                {detectSubtleBiases(state.rawText, state.sentences,
                                    state.ruleBasedDetections, response)} :
             NodeFinishes("llmDetection", llmDetections,
                          [llmDetections |-> llmDetections.value])
  /\ UNCHANGED call

ValidationNode ==
  /\ Scheduled("validation")
  /\ \E merged \in {MergedDetections(state.ruleBasedDetections,
                                       state.llmDetections)} :
       \E response \in ValidationResponses(Len(merged)) :
         \* with nothing to validate the collaborator is not called
         /\ Len(merged) = 0 =>
              response = [outcome |-> "ok", validations |-> <<>>]
         /\ calls' = [calls EXCEPT
                        !.validation = IF Len(merged) = 0 THEN "none"
                                       ELSE Answer(response.outcome)]
         /\ \E validatedDetections \in
                  {validateDetections(state.ruleBasedDetections,
                                      state.llmDetections, state.rawText,
                                      response)} :
               NodeFinishes("validation", validatedDetections,
                 [validatedDetections |-> validatedDetections.value])
  /\ UNCHANGED call

ExplanationNode ==
  /\ Scheduled("generateExplanations")
  /\ \E names \in {UniqueNames(state.validatedDetections)} :
       \E outcomes \in [1..Len(names) -> Outcomes] :
         /\ calls' = [calls EXCEPT !.explanation = Map(outcomes, Answer)]
         /\ \E explanations \in
                  {generateExplanations(state.validatedDetections, outcomes)} :
               NodeFinishes("generateExplanations", explanations,
                            [explanations |-> explanations.value])
  /\ UNCHANGED call

FramingAnalysisNode ==
  /\ Scheduled("analyzeFraming")
  /\ \E response \in FramingResponses :
       LET articleAnalysis ==
             analyzeArticleFraming(state.rawText, state.metadata,
                                   state.validatedDetections, response)
       IN  /\ calls' = [calls EXCEPT !.framing = Answer(response.outcome)]
           /\ NodeFinishes("analyzeFraming", articleAnalysis,
                           [articleAnalysis |-> articleAnalysis.value])
  /\ UNCHANGED call

FormatOutputNode ==
  /\ Scheduled("formatOutput")
  /\ \E output \in {FormatOutput(state)} :
       NodeReturns("formatOutput", [output |-> output])
  /\ UNCHANGED <<calls, call>>

Next ==
  \/ Analyze
  \/ PreprocessNode
  \/ RuleBasedDetectionNode
  \/ LlmDetectionNode
  \/ ValidationNode
  \/ ExplanationNode
  \/ FramingAnalysisNode
  \/ FormatOutputNode

Spec == Init /\ [][Next]_vars

\* every scheduled node runs to completion: the collaborators answer or
\* fail, they do not hang
LiveSpec == Spec /\ WF_vars(Next)

(***************************************************************************)
(* Direct calls of the RuleBasedDetector methods and of TextCleaner.clean,  *)
(* as their unit tests make them: the inputs are drawn from bounded sets   *)
(* and the call record keeps the arguments and the result.  A behaviour    *)
(* makes one call.                                                         *)
(***************************************************************************)
MaxMatches == 2

MaxEntries == 3

\* a definition that carries every kind of clue and modifier
SaturatedItem ==
  CompileItem(
    [name |-> "Saturated",
     description |-> "Carries every kind of clue and modifier",
     patterns |-> << [regex |-> "test", weight |-> 100,
                      description |-> "test"] >>,
     context_clues |-> [positive |-> <<"evidence", "confirms">>,
                        negative |-> <<"surprised", "unexpected">>],
     confidence_modifiers |->
       [bias_specific_terms |-> <<"all along">>,
        high_confidence_terms |-> <<"obviously">>,
        negation_terms |-> <<"hardly", "no way">>,
        uncertainty_terms |-> <<"perhaps">>],
     exclusions |-> <<>>])

ScoreItems ==
  {SaturatedItem, CompileItem(ConfirmationBias), CompileItem(HindsightBias)}

ScoreSentences ==
  {"Test sentence",
   "Not that it matters to anyone here, but this is a test",
   "This is clearly a test with evidence",
   "Clearly obviously all along evidence confirms test",
   "Not quite what anyone here would have expected from a test",
   "This is not a test, and after a long stretch of words one more test",
   "not never no way hardly unexpected surprised test maybe perhaps quite"}

\* absent, zero, low, typical, full and out-of-range weights
ScoreWeights == {0, 100, 700, 1000, 5000, -2000}

\* a hand-made match of "test" at its first place in the sentence, with or
\* without a weight, and one at each further place
ScoreMatches(sentence) ==
  LET at == Max(0, IndexOf(ToLowerCase[sentence], "test"))
      Bare == [pattern |-> "/test/i", matched |-> "test",
               index |-> at, length |-> 4]
  IN  {Bare} \cup { Spread(Bare, [weight |-> w]) : w \in ScoreWeights }
        \cup { [pattern |-> "/test/i", matched |-> "test", index |-> o,
                length |-> 4, weight |-> 700] :
                 o \in Occurrences(ToLowerCase[sentence], "test") \ {at} }

ProbeSentences ==
  Catalogue \cup
  {"", "   ", "I KNEW THIS.", "You are too old, as I expected.",
   "It was obvious, based on research.", "I knew this based on data.",
   "Clearly I knew this, as I said.",
   "I knew this was obvious, you are too young.",
   "As I said, I knew this and I knew this."}

ProbeDescription == "Description"

\* hand-made detections: a bias and a fallacy of one name, and a second
\* fallacy
ProbeKinds ==
  << [type |-> "bias",    name |-> "Confirmation Bias", levels |-> {600, 920}],
     [type |-> "fallacy", name |-> "Confirmation Bias", levels |-> {950}],
     [type |-> "fallacy", name |-> "Ad Hominem",        levels |-> {700}] >>

\* level 0 stands for "this kind is absent from the sentence"
ProbeChoices ==
  { c \in [1..Len(ProbeKinds) -> {0, 600, 700, 920, 950}] :
      \A k \in 1..Len(ProbeKinds) :
        c[k] = 0 \/ c[k] \in ProbeKinds[k].levels }

ProbeDetections(c) ==
  Flatten([k \in 1..Len(ProbeKinds) |->
             IF c[k] = 0 THEN <<>>
             ELSE << [type |-> ProbeKinds[k].type,
                      name |-> ProbeKinds[k].name,
                      description |-> ProbeDescription,
                      matches |-> <<>>,
                      confidence |-> c[k]] >>])

ProbeLists ==
  UNION { { [i \in 1..n |->
               [sentence |-> "Sentence " \o ToString(i - 1) \o ".",
                sentenceIndex |-> i - 1,
                detections |-> ProbeDetections(cs[i])]] :
            cs \in [1..n -> ProbeChoices] } : n \in 0..MaxEntries }

CallCalculateConfidence ==
  /\ pc = "idle" /\ call = NoCall
  /\ \E sentence \in ScoreSentences, item \in ScoreItems :
       \E matches \in UNION { [1..n -> ScoreMatches(sentence)] :
                                n \in 0..MaxMatches } :
         call' = [op |-> "calculateConfidence", matches |-> matches,
                  sentence |-> sentence, item |-> item,
                  result |-> calculateConfidence(matches, sentence, item)]
  /\ UNCHANGED pipelineVars

\* byFilter is what the same detector returns for the same sentence under
\* each of the three filters
CallDetectInSentence ==
  /\ pc = "idle" /\ call = NoCall
  /\ \E sentence \in ProbeSentences, filter \in DetectionFilters :
       call' = [op |-> "detectInSentence", sentence |-> sentence,
                filter |-> filter,
                result |-> detectInSentence(sentence, filter),
                byFilter |-> [f \in DetectionFilters |->
                                detectInSentence(sentence, f)]]
  /\ UNCHANGED pipelineVars

\* texts in which two sentences with the same bias or fallacy are separated
\* by a sentence in which nothing is detected
GapTexts ==
  {"I knew this. Nice weather today. I knew this.",
   "You are too young. Nice weather today. You are too young.",
   "I knew this. Nice weather today. You are too young."}

CallDetectInText ==
  /\ pc = "idle" /\ call = NoCall
  /\ \E text \in Texts \cup GapTexts :
       call' = [op |-> "detectInText", text |-> text,
                result |-> detectInText(text)]
  /\ UNCHANGED pipelineVars

\* analyzeContext copies the array and mutates the detection objects the
\* entries share with the caller's list: after the call the caller's list
\* holds the boosted confidences (after), and a second call on it (again)
\* starts from them
CallAnalyzeContext ==
  /\ pc = "idle" /\ call = NoCall
  /\ \E detections \in ProbeLists :
       call' = [op |-> "analyzeContext", detections |-> detections,
                result |-> analyzeContext(detections),
                after |-> analyzeContext(detections),
                again |-> analyzeContext(analyzeContext(detections))]
  /\ UNCHANGED pipelineVars

CallGenerateSummary ==
  /\ pc = "idle" /\ call = NoCall
  /\ \E detections \in ProbeLists :
       call' = [op |-> "generateSummary", detections |-> detections,
                result |-> generateSummary(detections)]
  /\ UNCHANGED pipelineVars

\* a public method called with null or undefined
CallWithAbsentInput ==
  /\ pc = "idle" /\ call = NoCall
  /\ \/ \E filter \in DetectionFilters :
          call' = [op |-> "absentInput", method |-> "detectInSentence",
                   result |-> detectInSentenceArg(Absent, filter)]
     \/ call' = [op |-> "absentInput", method |-> "detectInText",
                 result |-> detectInTextArg(Absent)]
     \/ call' = [op |-> "absentInput", method |-> "generateSummary",
                 result |-> generateSummaryArg(Absent)]
  /\ UNCHANGED pipelineVars

MaxDefinitions == 2

\* definitions for the Pattern Compiler: of the library, without patterns,
\* and with a malformed match pattern
WithoutPatterns == [AdHominem EXCEPT !.patterns = <<>>]

BadPattern ==
  [HindsightBias EXCEPT
     !.patterns = << [regex |-> "was obvious", weight |-> 600,
                      description |-> "Claims of obviousness after the fact"],
                     [regex |-> "should have (seen", weight |-> 400,
                      description |-> "Unbalanced parenthesis"] >>]

ProbeDefinitions == {ConfirmationBias, AdHominem, WithoutPatterns, BadPattern}

CallCompilePatterns ==
  /\ pc = "idle" /\ call = NoCall
  /\ \E items \in UNION { [1..n -> ProbeDefinitions] :
                            n \in 0..MaxDefinitions } :
       call' = [op |-> "compilePatterns", items |-> items,
                result |-> IF compilePatternsThrows(items) THEN Thrown
                           ELSE Returned(compilePatterns(items))]
  /\ UNCHANGED pipelineVars

\* libraries for the constructor: Confirmation Bias with its exclusions
\* well-formed or malformed, alone or next to a malformed match pattern
ProbeExclusions ==
  { <<>>,
    ConfirmationBias.exclusions,
    << [pattern |-> "based on (data", reason |-> "Unbalanced parenthesis"] >>,
    ConfirmationBias.exclusions \o
      << [pattern |-> "according to )", reason |-> "Unbalanced parenthesis"] >> }

ProbeLibraries ==
  { [global_confidence_modifiers |-> GlobalModifiers,
     biases |-> <<[ConfirmationBias EXCEPT !.exclusions = e]>> \o b,
     fallacies |-> <<AdHominem>>] :
      e \in ProbeExclusions, b \in {<<>>, <<BadPattern>>} }

\* new RuleBasedDetector(library) and, when that succeeded, one call of
\* detectInSentence on the detector
CallConstructor ==
  /\ pc = "idle" /\ call = NoCall
  /\ \E library \in ProbeLibraries, sentence \in ProbeSentences :
       \E detector \in {NewRuleBasedDetector(library)} :
         call' = [op |-> "construct", library |-> library,
                  constructed |-> ~detector.threw,
                  sentence |-> sentence,
                  detection |->
                    IF detector.threw THEN Thrown
                    ELSE IF detectInSentenceThrows(detector.value.compiledData,
                                                   sentence, "all")
                         THEN Thrown
                         ELSE Returned(detectInSentenceOf(
                                         detector.value.compiledData,
                                         sentence, "all"))]
  /\ UNCHANGED pipelineVars

\* texts for TextCleaner.clean: those of its unit tests, and texts with a
\* URL whose scheme is written in upper or mixed case
CleanTexts ==
  {"",
   "check this website https://example.com and continue reading.",
   "This TEXT has MIXED Case",
   "Hello, world! How are you?",
   "  Too   many    spaces   ",
   "see http://a.b and https://c.d here",
   "Read HTTPS://EXAMPLE.COM today.",
   "Read Http://example.com today."}

CleanerOptions ==
  [removeUrls : BOOLEAN, removePunctuation : BOOLEAN, lowercase : BOOLEAN]

\* new TextCleaner(options).clean(text)
CallClean ==
  /\ pc = "idle" /\ call = NoCall
  /\ \E text \in CleanTexts, options \in CleanerOptions :
       call' = [op |-> "clean", text |-> text, options |-> options,
                result |-> clean(text, options)]
  /\ UNCHANGED pipelineVars

DetectorNext ==
  \/ CallCalculateConfidence
  \/ CallDetectInSentence
  \/ CallDetectInText
  \/ CallAnalyzeContext
  \/ CallGenerateSummary
  \/ CallWithAbsentInput
  \/ CallCompilePatterns
  \/ CallConstructor
  \/ CallClean

DetectorSpec == Init /\ [][DetectorNext]_vars

(***************************************************************************)
(* Properties of the pipeline                                              *)
(***************************************************************************)
RuleBasedFirst ==
  <<"preprocess", "ruleBasedDetection", "llmDetection", "validation",
    "generateExplanations", "analyzeFraming", "formatOutput">>

LlmFirst ==
  <<"preprocess", "llmDetection", "ruleBasedDetection", "validation",
    "generateExplanations", "analyzeFraming", "formatOutput">>

IsPrefix(p, q) == Len(p) <= Len(q) /\ SubSeq(q, 1, Len(p)) = p

Failed(answer) == answer = "failed"

Ran(node) == \E i \in 1..Len(trace) : trace[i] = node

\* the definitions of the library, whatever their category
LibraryItems ==
  { BiasesConfig.biases[i] : i \in 1..Len(BiasesConfig.biases) }
  \cup { BiasesConfig.fallacies[i] : i \in 1..Len(BiasesConfig.fallacies) }

\* what a validated detection says about the detection it came from
Core(d) ==
  [type |-> d.type, name |-> d.name, sentence |-> d.sentence,
   sentenceIndex |-> d.sentenceIndex, confidence |-> d.confidence,
   sourceDetector |-> d.sourceDetector]

\* the rule-based detections of the request, sentence by sentence, and then
\* the LLM detections, as Core records
RuleBasedCores(ruleBased) ==
  Flatten([i \in 1..Len(ruleBased) |->
             [j \in 1..Len(ruleBased[i].detections) |->
                [type |-> ruleBased[i].detections[j].type,
                 name |-> ruleBased[i].detections[j].name,
                 sentence |-> ruleBased[i].sentence,
                 sentenceIndex |-> ruleBased[i].sentenceIndex,
                 confidence |-> ruleBased[i].detections[j].confidence,
                 sourceDetector |-> "rule-based"]]])

LlmCores(llm) ==
  [i \in 1..Len(llm) |->
     [type |-> llm[i].type, name |-> llm[i].name,
      sentence |-> llm[i].sentence, sentenceIndex |-> llm[i].sentenceIndex,
      confidence |-> llm[i].confidence, sourceDetector |-> "llm"]]

AtLeastThreshold(c) == c.confidence >= 650

\* C1: whatever the four collaborators do (answer, throw, or answer with
\* text that is not JSON), a started analysis never fails and eventually
\* returns: FormatOutput has run and analyze has its FinalOutput.
C1_AnalyzeAlwaysReturns ==
  /\ [](pc # "failed")
  /\ (pc = "running") ~> (pc = "done" /\ Ran("formatOutput")
                            /\ DOMAIN state.output =
                                 {"detections", "explanations",
                                  "articleAnalysis", "highlightedText",
                                  "summary"})

\* a run that returned although all four collaborators were called and
\* every call failed
C1_Witness ==
  /\ pc = "done"
  /\ Failed(calls.llm)
  /\ Failed(calls.validation)
  /\ Len(calls.explanation) >= 1
  /\ \A i \in 1..Len(calls.explanation) : Failed(calls.explanation[i])
  /\ Failed(calls.framing)

NoCallSucceeded ==
  /\ Failed(calls.llm)
  /\ calls.validation # "ok"
  /\ \A i \in 1..Len(calls.explanation) : Failed(calls.explanation[i])
  /\ Failed(calls.framing)

\* C2: when every collaborator call of a run failed, the FinalOutput holds
\* exactly the rule-based detections with confidence >= 0.65 (no LLM
\* detection), one explanation per distinct detection name carrying the
\* library's description of that name, and the neutral default analysis.
C2_AllFailedOutput ==
  (pc = "done" /\ NoCallSucceeded) =>
    LET out == state.output
        names == { out.detections[i].name : i \in 1..Len(out.detections) }
    IN  /\ state.llmDetections = <<>>
        /\ Map(out.detections, Core)
             = Filter(RuleBasedCores(state.ruleBasedDetections),
                      AtLeastThreshold)
        /\ Len(out.explanations) = Cardinality(names)
        /\ { out.explanations[i].biasOrFallacyName :
               i \in 1..Len(out.explanations) } = names
        /\ \A i \in 1..Len(out.explanations) :
             \E item \in LibraryItems :
               /\ item.name = out.explanations[i].biasOrFallacyName
               /\ out.explanations[i].simpleExplanation = item.description
        /\ out.articleAnalysis.overallTone = "neutral"
        /\ out.articleAnalysis.credibilityScore = 5
        /\ out.articleAnalysis.manipulationTechniques = <<>>
        /\ out.articleAnalysis.omittedPerspectives = <<>>

\* all four were called and failed; a rule-based detection was dropped by
\* the threshold and a kept one was explained from the library
C2_Witness ==
  /\ pc = "done"
  /\ Failed(calls.llm) /\ Failed(calls.validation) /\ Failed(calls.framing)
  /\ Len(calls.explanation) >= 1
  /\ \A i \in 1..Len(calls.explanation) : Failed(calls.explanation[i])
  /\ Len(state.output.explanations) >= 1
  /\ Len(state.output.detections)
       < Len(RuleBasedCores(state.ruleBasedDetections))

\* C3: the stages of one request finish in the order Preprocess, then
\* RuleBasedDetect and LlmDetect in either order, then Validate, Explain,
\* AnalyzeFraming, FormatOutput; no stage runs twice, a returned run has
\* run each once, and Validate runs only after both detectors.
C3_StageOrder ==
  /\ IsPrefix(trace, RuleBasedFirst) \/ IsPrefix(trace, LlmFirst)
  /\ pc = "done" => Len(trace) = Len(RuleBasedFirst)
  /\ "validation" \in todo =>
       Ran("ruleBasedDetection") /\ Ran("llmDetection")

\* a returned run in which the LLM detector finished before the rule-based
\* detector
C3_Witness == pc = "done" /\ trace = LlmFirst

\* C4: the subtle-detection collaborator is told, as already detected,
\* every name the rule-based detector found for the same request.
C4_LlmToldRuleBasedNames ==
  (pc = "done") =>
    \A i \in 1..Len(state.ruleBasedDetections) :
      \A j \in 1..Len(state.ruleBasedDetections[i].detections) :
        \E k \in 1..Len(calls.alreadyDetected) :
          calls.alreadyDetected[k] =
            state.ruleBasedDetections[i].detections[j].name

\* C5: when the validation call fails, Validate returns exactly the merged
\* detections (rule-based first, then LLM, order kept) whose confidence is
\* >= 0.65, each auto-validated with its own confidence as validationScore.
C5_ValidationFallback ==
  (Ran("validation") /\ Failed(calls.validation)) =>
    LET validated == state.validatedDetections
    IN  /\ Map(validated, Core)
             = Filter(RuleBasedCores(state.ruleBasedDetections)
                        \o LlmCores(state.llmDetections),
                      AtLeastThreshold)
        /\ \A i \in 1..Len(validated) :
             /\ validated[i].isValidated
             /\ validated[i].validationScore = validated[i].confidence
             /\ validated[i].validationReasoning =
                  "Auto-validated based on high confidence (fallback)"
             /\ validated[i].confidence >= 650

\* the fallback kept a rule-based and an LLM detection and dropped another
C5_Witness ==
  /\ Ran("validation") /\ Failed(calls.validation)
  /\ \E i \in 1..Len(state.validatedDetections) :
       state.validatedDetections[i].sourceDetector = "rule-based"
  /\ \E i \in 1..Len(state.validatedDetections) :
       state.validatedDetections[i].sourceDetector = "llm"
  /\ Len(state.validatedDetections)
       < Len(RuleBasedCores(state.ruleBasedDetections))
           + Len(state.llmDetections)

(***************************************************************************)
(* Properties of the rule-based detector                                   *)
(***************************************************************************)
\* the detections of a list of SentenceDetections as positions <<i, j>>
Positions(list) ==
  UNION { { <<i, j>> : j \in 1..Len(list[i].detections) } :
            i \in 1..Len(list) }

At(list, p) == list[p[1]].detections[p[2]]

\* the entry at index i of the list holds a detection of d's category and name
HoldsSame(list, i, d) ==
  /\ i \in 1..Len(list)
  /\ \E j \in 1..Len(list[i].detections) :
       /\ list[i].detections[j].type = d.type
       /\ list[i].detections[j].name = d.name

InRange(confidence) == 100 <= confidence /\ confidence <= 950

\* C6: calculateConfidence returns a value in [0.1, 0.95] for any matches,
\* weights and modifier terms, and every detection detectInText returns has
\* a confidence in [0.1, 0.95] after the Context Reinforcer has run.
C6_ConfidenceInRange ==
  /\ call.op = "calculateConfidence" => InRange(call.result)
  /\ call.op = "detectInText" =>
       \A p \in Positions(call.result) : InRange(At(call.result, p).confidence)

\* a score that the lower clamp caught: negative weights and every
\* negative modifier, returned as exactly 0.1
C6_Witness ==
  /\ call.op = "calculateConfidence"
  /\ Len(call.matches) > 0
  /\ call.result = 100

\* the definitions a filter selects, as <<type, definition>>
Selected(filter) ==
  (IF filter \in {"all", "biases"}
   THEN { <<"bias", BiasesConfig.biases[i]>> :
            i \in 1..Len(BiasesConfig.biases) }
   ELSE {})
  \cup
  (IF filter \in {"all", "fallacies"}
   THEN { <<"fallacy", BiasesConfig.fallacies[i]>> :
            i \in 1..Len(BiasesConfig.fallacies) }
   ELSE {})

SomePatternMatches(item, sentence) ==
  \E k \in 1..Len(item.patterns) :
    RegexTest(NewRegExp(item.patterns[k].regex), sentence)

SomeExclusionMatches(item, sentence) ==
  \E k \in 1..Len(item.exclusions) :
    RegexTest(NewRegExp(item.exclusions[k].pattern), sentence)

Emitted(result, type, name) ==
  Cardinality({ k \in 1..Len(result) :
                  result[k].type = type /\ result[k].name = name })

\* C7: detectInSentence emits a detection for a definition iff one of its
\* patterns matches the sentence and none of its exclusions does: exactly
\* one detection then, and none at all when an exclusion matches.
C7_EmitsIffMatchedNotExcluded ==
  call.op = "detectInSentence" =>
    \A sel \in Selected(call.filter) :
      Emitted(call.result, sel[1], sel[2].name) =
        IF /\ SomePatternMatches(sel[2], call.sentence)
           /\ ~SomeExclusionMatches(sel[2], call.sentence)
        THEN 1 ELSE 0

\* a sentence that matches a pattern of Confirmation Bias and its exclusion:
\* nothing is emitted for it
C7_Witness ==
  /\ call.op = "detectInSentence"
  /\ call.filter = "all"
  /\ SomePatternMatches(ConfirmationBias, call.sentence)
  /\ SomeExclusionMatches(ConfirmationBias, call.sentence)
  /\ call.result = <<>>

\* the adjacent entries of entry i that hold a detection of d's category
\* and name
SameNeighbours(list, i, d) ==
  Cardinality({ n \in {i - 1, i + 1} : HoldsSame(list, n, d) })

\* C8 as stated: both members of an adjacent same-category same-name pair
\* are strictly increased, by exactly 0.05 each, clamped at 0.95.
C8_BothBoostedExactlyOnce ==
  call.op = "analyzeContext" =>
    \A p \in Positions(call.detections) :
      LET before == At(call.detections, p).confidence
          after  == At(call.result, p).confidence
      IN  SameNeighbours(call.detections, p[1], At(call.detections, p)) > 0
            => after = Min(950, before + 50) /\ after > before

\* C8: a detection gains 0.05 for each adjacent entry (the one before, the
\* one after) that holds a detection of its category and name, clamped at
\* 0.95; it is strictly increased when it was below 0.95.
C8_BoostedPerNeighbour ==
  call.op = "analyzeContext" =>
    \A p \in Positions(call.detections) :
      LET d      == At(call.detections, p)
          after  == At(call.result, p).confidence
          n      == SameNeighbours(call.detections, p[1], d)
      IN  /\ after = Min(950, d.confidence + 50 * n)
          /\ (n > 0 /\ d.confidence < 950) => after > d.confidence

\* three entries in a row hold the same bias: the middle one is boosted
\* twice, the outer ones once
C8_Witness ==
  /\ call.op = "analyzeContext"
  /\ Len(call.detections) = 3
  /\ \A i \in 1..3 : Len(call.detections[i].detections) = 1
                       /\ call.detections[i].detections[1].confidence = 600
                       /\ call.detections[i].detections[1].type = "bias"
  /\ call.result[1].detections[1].confidence = 650
  /\ call.result[2].detections[1].confidence = 700
  /\ call.result[3].detections[1].confidence = 650

WithoutConfidence(d) == [k \in DOMAIN d \ {"confidence"} |-> d[k]]

\* C9: analyzeContext changes confidences only: as many entries, in the
\* same order, with the same sentence, index and detections apart from
\* their confidence; a detection with no detection of its category and name
\* in a neighbouring entry keeps its confidence; a list of 0 or 1 entries
\* is returned as it is.
C9_OnlyConfidencesChange ==
  call.op = "analyzeContext" =>
    LET in  == call.detections
        out == call.result
    IN  /\ Len(out) = Len(in)
        /\ \A i \in 1..Len(in) :
             /\ out[i].sentence = in[i].sentence
             /\ out[i].sentenceIndex = in[i].sentenceIndex
             /\ Len(out[i].detections) = Len(in[i].detections)
             /\ DOMAIN out[i] = DOMAIN in[i]
        /\ \A p \in Positions(in) :
             /\ WithoutConfidence(At(out, p)) = WithoutConfidence(At(in, p))
             /\ SameNeighbours(in, p[1], At(in, p)) = 0
                  => At(out, p).confidence = At(in, p).confidence
        /\ Len(in) <= 1 => out = in

\* one entry holds a boosted detection next to one that no neighbour
\* shares and that kept its confidence
C9_Witness ==
  /\ call.op = "analyzeContext"
  /\ Len(call.detections) >= 2
  /\ \E i \in 1..Len(call.detections) :
       \E j, k \in 1..Len(call.detections[i].detections) :
         /\ call.result[i].detections[j].confidence
              > call.detections[i].detections[j].confidence
         /\ call.detections[i].detections[k].name
              = call.detections[i].detections[j].name
         /\ call.detections[i].detections[k].type
              # call.detections[i].detections[j].type
         /\ call.result[i].detections[k].confidence
              = call.detections[i].detections[k].confidence

\* the detections of a category and name in a list of SentenceDetections
Instances(list, type, name) ==
  { p \in Positions(list) :
      At(list, p).type = type /\ At(list, p).name = name }

NamesOf(list, type) ==
  { At(list, p).name : p \in { q \in Positions(list) : At(list, q).type = type } }

\* one summary group against the detections of its category
GroupMatches(entries, list, type) ==
  /\ \A a, b \in 1..Len(entries) :
       entries[a].name = entries[b].name => a = b
  /\ { entries[k].name : k \in 1..Len(entries) } = NamesOf(list, type)
  /\ \A k \in 1..Len(entries) :
       LET inst == Instances(list, type, entries[k].name)
       IN  /\ entries[k].count = Cardinality(inst)
           /\ \E p \in inst : At(list, p).confidence = entries[k].confidence
           /\ \A p \in inst : At(list, p).confidence <= entries[k].confidence

\* C10: generateSummary emits one entry per (category, name) that occurs,
\* with the number of its detections as count and their greatest
\* confidence; biases only in biasesFound, fallacies only in
\* fallaciesFound, so that the counts add up to the number of detections.
C10_SummaryPerCategoryAndName ==
  call.op = "generateSummary" =>
    /\ GroupMatches(call.result.biasesFound, call.detections, "bias")
    /\ GroupMatches(call.result.fallaciesFound, call.detections, "fallacy")
    /\ SumSeq(Map(call.result.biasesFound, LAMBDA e : e.count))
         + SumSeq(Map(call.result.fallaciesFound, LAMBDA e : e.count))
         = Cardinality(Positions(call.detections))

\* one name summarised as a bias (twice, the later instance being the less
\* confident one) and as a fallacy
C10_Witness ==
  /\ call.op = "generateSummary"
  /\ \E b \in 1..Len(call.result.biasesFound) :
       \E f \in 1..Len(call.result.fallaciesFound) :
         /\ call.result.biasesFound[b].name
              = call.result.fallaciesFound[f].name
         /\ call.result.biasesFound[b].count = 2
         /\ call.result.biasesFound[b].confidence = 920
  /\ \E i \in 1..Len(call.detections) :
       \E j \in 1..Len(call.detections[i].detections) :
         /\ i > 1
         /\ call.detections[i].detections[j].type = "bias"
         /\ call.detections[i].detections[j].confidence = 600
         /\ \E h \in 1..(i - 1) :
              \E g \in 1..Len(call.detections[h].detections) :
                /\ call.detections[h].detections[g].type = "bias"
                /\ call.detections[h].detections[g].confidence = 920

\* the first position at which a detection of the category and name stands
FirstSeen(list, type, name) ==
  LET inst == Instances(list, type, name)
  IN  CHOOSE p \in inst :
        \A q \in inst : p[1] < q[1] \/ (p[1] = q[1] /\ p[2] <= q[2])

ComesBefore(p, q) == p[1] < q[1] \/ (p[1] = q[1] /\ p[2] < q[2])

OrderedByCount(entries, list, type) ==
  \A a, b \in 1..Len(entries) :
    a < b =>
      \/ entries[a].count > entries[b].count
      \/ /\ entries[a].count = entries[b].count
         /\ ComesBefore(FirstSeen(list, type, entries[a].name),
                        FirstSeen(list, type, entries[b].name))

\* C11: in biasesFound and in fallaciesFound the entries are in order of
\* non-increasing count, and entries of equal count stand in the order in
\* which their names were first met while scanning the detections.
C11_SortedByCountStable ==
  call.op = "generateSummary" =>
    /\ OrderedByCount(call.result.biasesFound, call.detections, "bias")
    /\ OrderedByCount(call.result.fallaciesFound, call.detections, "fallacy")

\* two fallacy names: the one met second is the more frequent and comes
\* first in the summary
C11_Witness ==
  /\ call.op = "generateSummary"
  /\ Len(call.result.fallaciesFound) = 2
  /\ call.result.fallaciesFound[1].count > call.result.fallaciesFound[2].count
  /\ ComesBefore(
       FirstSeen(call.detections, "fallacy", call.result.fallaciesFound[2].name),
       FirstSeen(call.detections, "fallacy", call.result.fallaciesFound[1].name))

\* the patterns of a library, match patterns and exclusion patterns alike
LibraryPatterns(library) ==
  LET items == library.biases \o library.fallacies
  IN  UNION { { items[i].patterns[k].regex : k \in 1..Len(items[i].patterns) }
              \cup { items[i].exclusions[k].pattern :
                       k \in 1..Len(items[i].exclusions) } :
              i \in 1..Len(items) }

\* C12: a malformed match or exclusion pattern in the library makes the
\* construction of the detector fail, so that detectInSentence on a
\* constructed detector never fails because of a pattern.
C12_MalformedPatternFailsConstruction ==
  call.op = "construct" =>
    /\ (\E src \in LibraryPatterns(call.library) : Malformed(src))
         => ~call.constructed
    /\ call.constructed => ~call.detection.threw

\* C13: compilePatterns returns one compiled definition per definition, in
\* order, each with as many compiledPatterns as patterns, in order, with
\* weight and description copied; a definition without patterns compiles,
\* without error, to an empty compiledPatterns list.
C13_CompiledMirrorsSource ==
  call.op = "compilePatterns" =>
    LET items == call.items
        out   == call.result.value
    IN  /\ (\A i \in 1..Len(items) : items[i].patterns = <<>>)
             => ~call.result.threw
        /\ ~call.result.threw =>
             /\ Len(out) = Len(items)
             /\ \A i \in 1..Len(items) :
                  /\ out[i].name = items[i].name
                  /\ out[i].patterns = items[i].patterns
                  /\ Len(out[i].compiledPatterns) = Len(items[i].patterns)
                  /\ \A k \in 1..Len(items[i].patterns) :
                       /\ out[i].compiledPatterns[k].regex.source
                            = items[i].patterns[k].regex
                       /\ out[i].compiledPatterns[k].weight
                            = items[i].patterns[k].weight
                       /\ out[i].compiledPatterns[k].description
                            = items[i].patterns[k].description

\* a definition with two patterns compiled after one without patterns
C13_Witness ==
  /\ call.op = "compilePatterns"
  /\ ~call.result.threw
  /\ Len(call.items) = 2
  /\ call.items[1].patterns = <<>>
  /\ call.result.value[1].compiledPatterns = <<>>
  /\ Len(call.result.value[2].compiledPatterns) = 2

NoSummary == [biasesFound |-> <<>>, fallaciesFound |-> <<>>]

IsBlank(sentence) == \A i \in 1..Len(sentence) : IsSpace(CharAt(sentence, i))

\* C14: absent or empty input gives an empty result: detectInSentence for
\* a null, empty or blank sentence; detectInText for null or empty text and
\* for text none of whose sentences has a detection; generateSummary (two
\* empty lists) for a null or empty list.
C14_EmptyInputEmptyResult ==
  /\ call.op = "absentInput" =>
       call.result = IF call.method = "generateSummary" THEN NoSummary
                     ELSE <<>>
  /\ (call.op = "detectInSentence" /\ IsBlank(call.sentence))
       => call.result = <<>>
  /\ (call.op = "detectInText"
        /\ \A i \in 1..Len(splitIntoSentences[call.text]) :
             detectInSentence(splitIntoSentences[call.text][i], "all") = <<>>)
       => call.result = <<>>
  /\ (call.op = "generateSummary" /\ call.detections = <<>>)
       => call.result = NoSummary

\* a text of two sentences, neither with a detection
C14_Witness ==
  /\ call.op = "detectInText"
  /\ Len(splitIntoSentences[call.text]) = 2
  /\ call.result = <<>>

\* the position of a definition name in the library's list of a category
LibraryIndex(type, name) ==
  LET items == IF type = "bias" THEN BiasesConfig.biases
               ELSE BiasesConfig.fallacies
  IN  CHOOSE i \in 1..Len(items) : items[i].name = name

InDefinitionOrder(result) ==
  \A a, b \in 1..Len(result) :
    (a < b /\ result[a].type = result[b].type) =>
      LibraryIndex(result[a].type, result[a].name)
        < LibraryIndex(result[b].type, result[b].name)

\* C15: with the biases filter every detection is a bias, with the
\* fallacies filter every detection is a fallacy, and with the all filter
\* the result is the biases result followed by the fallacies result, each
\* in the order of the definitions.
C15_FilterHonoured ==
  call.op = "detectInSentence" =>
    /\ \A k \in 1..Len(call.byFilter["biases"]) :
         call.byFilter["biases"][k].type = "bias"
    /\ \A k \in 1..Len(call.byFilter["fallacies"]) :
         call.byFilter["fallacies"][k].type = "fallacy"
    /\ call.byFilter["all"]
         = call.byFilter["biases"] \o call.byFilter["fallacies"]
    /\ call.result = call.byFilter[call.filter]
    /\ InDefinitionOrder(call.result)

\* one sentence with two biases and a fallacy
C15_Witness ==
  /\ call.op = "detectInSentence"
  /\ call.filter = "all"
  /\ Len(call.byFilter["biases"]) = 2
  /\ Len(call.byFilter["fallacies"]) = 1
  /\ Len(call.result) = 3

\* no context clue and no modifier term of the library or of the definition
\* applies to the sentence and its matches
NoTermApplies(sentence, matches, item) ==
  /\ NearCount(item.context_clues.positive, sentence, matches) = 0
  /\ NearCount(item.context_clues.negative, sentence, matches) = 0
  /\ AnywhereCount(globalModifiers.high_confidence_terms, sentence) = 0
  /\ NearCount(globalModifiers.negation_terms, sentence, matches) = 0
  /\ AnywhereCount(globalModifiers.uncertainty_terms, sentence) = 0
  /\ AnywhereCount(globalModifiers.hedging_terms, sentence) = 0
  /\ AnywhereCount(item.confidence_modifiers.bias_specific_terms, sentence) = 0
  /\ AnywhereCount(item.confidence_modifiers.high_confidence_terms, sentence)
       = 0
  /\ NearCount(item.confidence_modifiers.negation_terms, sentence, matches) = 0
  /\ AnywhereCount(item.confidence_modifiers.uncertainty_terms, sentence) = 0

\* the sum of the weights, 0.5 standing in for a weight that is not set
WeightSum(matches) ==
  SumSeq([k \in 1..Len(matches) |->
            IF "weight" \in DOMAIN matches[k] THEN matches[k].weight ELSE 500])

\* C16: when no clue and no modifier applies, calculateConfidence returns
\* 0.5 + min(0.2 * S, 0.4) clamped to [0.1, 0.95], S being the sum of the
\* weights with 0.5 for an unset weight; one match of weight 0.7 gives 0.64.
C16_BaselineFromWeights ==
  (call.op = "calculateConfidence"
     /\ NoTermApplies(call.sentence, call.matches, call.item)) =>
    LET S == WeightSum(call.matches)
        contribution == IF 2 * S >= 4000 THEN 400 ELSE (2 * S) \div 10
    IN  /\ call.result = Max(100, Min(950, 500 + contribution))
        /\ (Len(call.matches) = 1 /\ S = 700) => call.result = 640

\* what does hold of the baseline: when every weight that is set differs
\* from 0 it is 0.5 + min(0.2 * S, 0.4), clamped, and with positive weights
\* a sentence with a match scores above 0.5
BaselineNonZeroWeights ==
  (call.op = "calculateConfidence"
     /\ NoTermApplies(call.sentence, call.matches, call.item)
     /\ \A k \in 1..Len(call.matches) :
          "weight" \in DOMAIN call.matches[k] => call.matches[k].weight # 0) =>
    LET S == WeightSum(call.matches)
        contribution == IF 2 * S >= 4000 THEN 400 ELSE (2 * S) \div 10
    IN  /\ call.result = Max(100, Min(950, 500 + contribution))
        /\ (Len(call.matches) >= 1 /\
            \A k \in 1..Len(call.matches) :
              "weight" \in DOMAIN call.matches[k] => call.matches[k].weight > 0)
             => call.result > 500

\* C17: detectInText returns one entry for each sentence of the splitter's
\* list that has a detection and none for the others, each with the 0-based
\* position of its sentence in that list; so the indices increase strictly
\* and no entry has an empty detections list.
C17_OneEntryPerDetectedSentence ==
  call.op = "detectInText" =>
    LET sentences == splitIntoSentences[call.text]
        detected  == { i \in 1..Len(sentences) :
                         detectInSentence(sentences[i], "all") # <<>> }
        out       == call.result
    IN  /\ Len(out) = Cardinality(detected)
        /\ \A k \in 1..Len(out) :
             /\ out[k].sentenceIndex + 1 \in detected
             /\ out[k].sentence = sentences[out[k].sentenceIndex + 1]
             /\ Len(out[k].detections) > 0
        /\ \A a, b \in 1..Len(out) :
             a < b => out[a].sentenceIndex < out[b].sentenceIndex

\* the first sentence has no detection and the second has one: one entry,
\* with sentenceIndex 1
C17_Witness ==
  /\ call.op = "detectInText"
  /\ Len(splitIntoSentences[call.text]) = 2
  /\ Len(call.result) = 1
  /\ call.result[1].sentenceIndex = 1

\* C20: analyzeContext is pure: after the call the list passed in holds
\* the confidences it held before, and a second call on it returns what
\* the first call returned.
C20_ReinforcerIsPure ==
  call.op = "analyzeContext" =>
    /\ call.after = call.detections
    /\ call.again = call.result

(***************************************************************************)
(* Properties of the FinalOutput                                           *)
(***************************************************************************)
\* C18: the highlighted segments are in order of non-decreasing startIndex;
\* a segment starts at the first occurrence of its detection's sentence in
\* the raw text and the raw text from startIndex to endIndex is the segment
\* text; its severity is high for a confidence >= 0.8, medium for one
\* >= 0.6 and < 0.8, low below that.
C18_SegmentsSortedLocatedGraded ==
  pc = "done" =>
    LET segs == state.output.highlightedText
        text == state.rawText
    IN  /\ \A a, b \in 1..Len(segs) :
             a < b => segs[a].startIndex <= segs[b].startIndex
        /\ \A k \in 1..Len(segs) :
             LET seg == segs[k]
                 confidence == seg.detections[1].confidence
             IN  /\ seg.text = seg.detections[1].sentence
                 /\ seg.startIndex >= 0
                 /\ SubSeq(text, seg.startIndex + 1, seg.endIndex) = seg.text
                 /\ \A o \in 0..(seg.startIndex - 1) :
                      SubSeq(text, o + 1, o + Len(seg.text)) # seg.text
                 /\ seg.severity =
                      IF confidence >= 800 THEN "high"
                      ELSE IF confidence >= 600 THEN "medium" ELSE "low"

\* the validated detections are not in text order: the segment of the
\* second one comes first and is graded high, the other one medium
C18_Witness ==
  /\ pc = "done"
  /\ Len(state.output.detections) = 2
  /\ Len(state.output.highlightedText) = 2
  /\ state.output.highlightedText[1].detections[1] = state.output.detections[2]
  /\ state.output.highlightedText[1].startIndex
       < state.output.highlightedText[2].startIndex
  /\ state.output.highlightedText[1].severity = "high"
  /\ state.output.highlightedText[2].severity = "medium"

\* the index of the first validated detection of a name
FirstValidated(name) ==
  CHOOSE i \in 1..Len(state.validatedDetections) :
    /\ state.validatedDetections[i].name = name
    /\ \A j \in 1..(i - 1) : state.validatedDetections[j].name # name

\* C19: the FinalOutput holds one explanation for each distinct name of
\* the validated detections and none for another name, whether the
\* explanation call succeeded or fell back, in the order in which the names
\* first occur in the validated detections.
C19_OneExplanationPerName ==
  pc = "done" =>
    LET validated == state.validatedDetections
        explained == state.output.explanations
        names == { validated[i].name : i \in 1..Len(validated) }
    IN  /\ state.output.detections = validated
        /\ Len(explained) = Cardinality(names)
        /\ { explained[k].biasOrFallacyName : k \in 1..Len(explained) } = names
        /\ \A a, b \in 1..Len(explained) :
             a < b => FirstValidated(explained[a].biasOrFallacyName)
                        < FirstValidated(explained[b].biasOrFallacyName)

\* three validated detections of two names, the first name occurring
\* twice; the first explanation call succeeded and the second fell back
C19_Witness ==
  /\ pc = "done"
  /\ Len(state.validatedDetections) = 3
  /\ Len(state.output.explanations) = 2
  /\ state.validatedDetections[2].name = state.validatedDetections[1].name
  /\ calls.explanation = <<"ok", "failed">>

(***************************************************************************)
(* Properties of TextCleaner.clean                                         *)
(***************************************************************************)
HasUrlScheme(s) == Includes(s, "http://") \/ Includes(s, "https://")

\* C21: with the default options the text clean returns contains neither
\* http:// nor https://, whatever the case the URLs of the input are
\* written in.
C21_CleanedTextHasNoUrl ==
  (call.op = "clean" /\ call.options = DefaultCleanerOptions)
    => ~HasUrlScheme(call.result)

\* the same for the texts whose URLs are written in lower case: the
\* pattern /https?:\/\/[^\s]+/g is case-sensitive
CleanRemovesLowerCaseUrls ==
  (/\ call.op = "clean" /\ call.options = DefaultCleanerOptions
   /\ ~HasUrlScheme(ToLowerCase[RemoveUrls[call.text]]))
    => ~HasUrlScheme(call.result)

\* the test "should remove urls be default": the words around the URL stay
CleanKeepsWordsAroundUrl ==
  (/\ call.op = "clean" /\ call.options = DefaultCleanerOptions
   /\ call.text =
        "check this website https://example.com and continue reading.")
    => call.result = "check this website and continue reading."

(***************************************************************************)
(* Properties of the Pattern Matcher                                       *)
(***************************************************************************)
\* the compiled definition a detection of the detector comes from
CompiledDefinition(type, name) ==
  LET items == IF type = "bias" THEN compiledData.biases
               ELSE compiledData.fallacies
  IN  items[LibraryIndex(type, name)]

\* the offset of the first place in the sentence where the pattern matches
FirstOffset(pattern, sentence) ==
  LET offs == RegexOffsets(pattern.regex, sentence)
  IN  CHOOSE o \in offs : \A j \in offs : o <= j

\* the positions in matches of the matches of the k-th pattern of item
MatchesOfPattern(matches, item, k) ==
  { m \in 1..Len(matches) :
      matches[m].pattern = RegexToString(item.compiledPatterns[k].regex) }

\* C22: the matches of a detection are one per pattern of its definition
\* that occurs in the sentence and none for the others; a match is at the
\* first occurrence of its pattern and carries its weight; the matches are
\* in the order of the patterns in the definition.
C22_OneMatchPerPatternInOrder ==
  call.op = "detectInSentence" =>
    \A d \in 1..Len(call.result) :
      LET item    == CompiledDefinition(call.result[d].type, call.result[d].name)
          matches == call.result[d].matches
          Of(k)   == MatchesOfPattern(matches, item, k)
      IN  /\ Len(matches) <= Len(item.compiledPatterns)
          /\ \A m \in 1..Len(matches) :
               \E k \in 1..Len(item.compiledPatterns) : m \in Of(k)
          /\ \A k \in 1..Len(item.compiledPatterns) :
               IF RegexTest(item.compiledPatterns[k].regex, call.sentence)
               THEN /\ Cardinality(Of(k)) = 1
                    /\ \A m \in Of(k) :
                         /\ matches[m].index =
                              FirstOffset(item.compiledPatterns[k],
                                          call.sentence)
                         /\ matches[m].weight = item.compiledPatterns[k].weight
                         /\ matches[m].length = Len(matches[m].matched)
                         /\ ToLowerCase[matches[m].matched] =
                              SubSeq(ToLowerCase[call.sentence],
                                     matches[m].index + 1,
                                     matches[m].index + matches[m].length)
               ELSE Of(k) = {}
          /\ \A k1, k2 \in 1..Len(item.compiledPatterns) :
               \A m1 \in Of(k1), m2 \in Of(k2) : k1 < k2 => m1 < m2

\* the second pattern of Confirmation Bias occurs before the first, which
\* occurs twice: two matches, the first pattern's first, at its first
\* occurrence
C22_Witness ==
  /\ call.op = "detectInSentence"
  /\ call.sentence = "As I said, I knew this and I knew this."
  /\ Len(call.result) = 1
  /\ Len(call.result[1].matches) = 2
  /\ call.result[1].matches[1].matched = "knew this"
  /\ call.result[1].matches[1].index = 13
  /\ call.result[1].matches[1].weight = 700
  /\ call.result[1].matches[2].matched = "As I said"
  /\ call.result[1].matches[2].index = 0
  /\ call.result[1].matches[2].weight = 800
  /\ Cardinality(Occurrences(ToLowerCase[call.sentence], "knew this")) = 2

\* what the detection at position p of the list gained by the call
Gain(p) == At(call.result, p).confidence - At(call.detections, p).confidence

\* C23: analyzeContext makes one pass over the consecutive pairs: a
\* detection gains 0.05 for each of its 0, 1 or 2 neighbouring entries that
\* hold its category and name, as far as the cap of 0.95 allows; in a run
\* of three such entries the middle one gains 0.10 and the outer ones 0.05.
C23_OnePassOverPairs ==
  call.op = "analyzeContext" =>
    /\ \A p \in Positions(call.detections) :
         LET d == At(call.detections, p)
             n == SameNeighbours(call.detections, p[1], d)
         IN  /\ n \in {0, 1, 2}
             /\ Gain(p) = Min(ContextBoost * n, MaxConfidence - d.confidence)
    /\ \A p \in Positions(call.detections) :
         LET d == At(call.detections, p)
             i == p[1]
         IN  (/\ HoldsSame(call.detections, i - 1, d)
              /\ HoldsSame(call.detections, i + 1, d)
              /\ ~HoldsSame(call.detections, i - 2, d)
              /\ ~HoldsSame(call.detections, i + 2, d))
               => /\ Gain(p) = Min(100, MaxConfidence - d.confidence)
                  /\ \A q \in Positions(call.detections) :
                       (/\ q[1] \in {i - 1, i + 1}
                        /\ At(call.detections, q).type = d.type
                        /\ At(call.detections, q).name = d.name)
                         => Gain(q) =
                              Min(50, MaxConfidence
                                        - At(call.detections, q).confidence)

\* a run of three entries with the same bias at 0.92, 0.92 and 0.6: the
\* first two stop at the cap, the last gains 0.05 and no more
C23_Witness ==
  /\ call.op = "analyzeContext"
  /\ Len(call.detections) = 3
  /\ \A i \in 1..3 : /\ Len(call.detections[i].detections) = 1
                     /\ call.detections[i].detections[1].type = "bias"
  /\ call.detections[1].detections[1].confidence = 920
  /\ call.detections[2].detections[1].confidence = 920
  /\ call.detections[3].detections[1].confidence = 600
  /\ call.result[1].detections[1].confidence = 950
  /\ call.result[2].detections[1].confidence = 950
  /\ call.result[3].detections[1].confidence = 650

\* the confidence the Confidence Scorer gave the detection of that category
\* and name in the sentence, before the Context Reinforcer ran
ScoredConfidence(sentence, type, name) ==
  LET found == detectInSentence(sentence, "all")
      k == CHOOSE j \in 1..Len(found) :
             found[j].type = type /\ found[j].name = name
  IN  found[k].confidence

\* an entry of the result for a sentence next to the one of entry e in the
\* text holds a detection of d's category and name
RecursInAdjacentSentence(result, e, d) ==
  \E n \in 1..Len(result) :
    /\ result[n].sentenceIndex - result[e].sentenceIndex \in {-1, 1}
    /\ \E j \in 1..Len(result[n].detections) :
         /\ result[n].detections[j].type = d.type
         /\ result[n].detections[j].name = d.name

\* C24: detectInText raises a detection's confidence above what the scorer
\* gave it only when a detection of the same category and name exists in a
\* sentence whose sentenceIndex differs from its own by exactly 1.
C24_BoostOnlyFromAdjacentSentence ==
  call.op = "detectInText" =>
    \A p \in Positions(call.result) :
      LET d == At(call.result, p)
      IN  d.confidence
            # ScoredConfidence(call.result[p[1]].sentence, d.type, d.name)
            => RecursInAdjacentSentence(call.result, p[1], d)

\* the same with "adjacent" read as the code reads it: next to it in the
\* list of the sentences that have detections
BoostOnlyFromAdjacentEntry ==
  call.op = "detectInText" =>
    \A p \in Positions(call.result) :
      LET d == At(call.result, p)
      IN  d.confidence
            # ScoredConfidence(call.result[p[1]].sentence, d.type, d.name)
            => SameNeighbours(call.result, p[1], d) > 0

(***************************************************************************)
(* Properties of the modifier terms                                        *)
(***************************************************************************)
\* the term occurs in the sentence, in any case
OccursIn(sentence, term) ==
  Occurrences(ToLowerCase[sentence], ToLowerCase[term]) # {}

\* the term occurs wholly inside the window of 25 characters on each side
\* of some match
OccursNearSomeMatch(sentence, matches, term) ==
  \E k \in 1..Len(matches) :
    \E o \in Occurrences(ToLowerCase[sentence], ToLowerCase[term]) :
      /\ o >= Max(0, matches[k].index - 25)
      /\ o + Len(term)
           <= Min(Len(sentence), matches[k].index + matches[k].length + 25)

\* how many of the terms satisfy Counts
HowMany(terms, Counts(_)) ==
  Cardinality({ t \in 1..Len(terms) : Counts(terms[t]) })

\* the score before the clamp, each term that counts counted once
ExpectedScore(matches, sentence, item) ==
  LET Near(term)     == OccursNearSomeMatch(sentence, matches, term)
      Anywhere(term) == OccursIn(sentence, term)
      S == SumSeq(Map(matches, WeightOrFallback))
  IN  BaseConfidence + Min((2 * S) \div 10, 400)
        + 50 * HowMany(item.context_clues.positive, Near)
        - 50 * HowMany(item.context_clues.negative, Near)
        + 50 * HowMany(globalModifiers.high_confidence_terms, Anywhere)
        - 100 * HowMany(globalModifiers.negation_terms, Near)
        - 30 * HowMany(globalModifiers.uncertainty_terms, Anywhere)
        - 20 * HowMany(globalModifiers.hedging_terms, Anywhere)
        + 70 * HowMany(item.confidence_modifiers.bias_specific_terms, Anywhere)
        + 50 * HowMany(item.confidence_modifiers.high_confidence_terms,
                       Anywhere)
        - 100 * HowMany(item.confidence_modifiers.negation_terms, Near)
        - 30 * HowMany(item.confidence_modifiers.uncertainty_terms, Anywhere)

\* C25: a negation term, global or of the definition, takes 0.1 off the
\* score once, and only if it lies wholly inside the window from
\* max(0, matchStart - 25) to min(length, matchEnd + 25) of some match; a
\* high-confidence, uncertainty, hedging or bias-specific term counts
\* wherever it is in the sentence.
C25_NegationNearOthersAnywhere ==
  call.op = "calculateConfidence" =>
    call.result =
      Max(100, Min(950, ExpectedScore(call.matches, call.sentence, call.item)))

\* "not" is near the first match and far from the second: with the two
\* matches it is counted once
C25_Witness ==
  /\ call.op = "calculateConfidence"
  /\ call.item = SaturatedItem
  /\ call.sentence =
       "This is not a test, and after a long stretch of words one more test"
  /\ Len(call.matches) = 2
  /\ call.matches[1].index = 14
  /\ call.matches[2].index > 14 + 4 + 25
  /\ \A k \in 1..2 : "weight" \in DOMAIN call.matches[k]
                       /\ call.matches[k].weight = 700
  /\ OccursIn(call.sentence, "not")
  /\ call.result = 500 + 280 - 100

\* the match without its weight when the weight is 0
WithoutZeroWeight(match) ==
  IF "weight" \in DOMAIN match /\ match.weight = 0
  THEN [k \in DOMAIN match \ {"weight"} |-> match[k]]
  ELSE match

\* C27: a match whose weight is 0 is scored like a match whose weight is
\* not set: the score is the one the same matches get with the weights of
\* 0 removed, and a single such match, when no term applies, gives
\* 0.5 + 0.2 * 0.5 = 0.6.
C27_ZeroWeightScoredAsUnset ==
  call.op = "calculateConfidence" =>
    /\ call.result =
         calculateConfidence(Map(call.matches, WithoutZeroWeight),
                             call.sentence, call.item)
    /\ (/\ Len(call.matches) = 1
        /\ "weight" \in DOMAIN call.matches[1]
        /\ call.matches[1].weight = 0
        /\ NoTermApplies(call.sentence, call.matches, call.item))
         => call.result = 600

\* one match of weight 0 in a sentence without terms: 0.6, as for the
\* match without a weight
C27_Witness ==
  /\ call.op = "calculateConfidence"
  /\ call.sentence = "Test sentence"
  /\ Len(call.matches) = 1
  /\ "weight" \in DOMAIN call.matches[1]
  /\ call.matches[1].weight = 0
  /\ call.result = 600

(***************************************************************************)
(* Properties of the accumulating record                                   *)
(***************************************************************************)
\* the fields each stage writes
OwnFields ==
  [preprocess           |-> {"cleanedText", "sentences"},
   ruleBasedDetection   |-> {"ruleBasedDetections"},
   llmDetection         |-> {"llmDetections"},
   validation           |-> {"validatedDetections"},
   generateExplanations |-> {"explanations"},
   analyzeFraming       |-> {"articleAnalysis"},
   formatOutput         |-> {"output"}]

\* the records agree on every field outside fields
SameOutside(before, after, fields) ==
  /\ DOMAIN after = DOMAIN before
  /\ \A f \in DOMAIN before \ fields : after[f] = before[f]

\* C26: a stage that finishes changes only its own fields of the record;
\* rawText and metadata are those analyze was called with from the start
\* of the run to its end; and the two detectors, which run in one
\* superstep, do not write the same field: the run does not fail on it.
C26_StagesWriteOwnFields ==
  [][/\ \A node \in Nodes :
          trace' = Append(trace, node) =>
            /\ SameOutside(staged, staged', OwnFields[node])
            /\ written' \in {{}, written \cup OwnFields[node]}
            /\ state' \in {state, staged'}
     /\ pc = "running" =>
          /\ pc' # "failed"
          /\ trace' # trace
          /\ state'.rawText = state.rawText
          /\ state'.metadata = state.metadata
          /\ staged'.rawText = state.rawText
          /\ staged'.metadata = state.metadata]_vars

\* a returned run with metadata in which every stage had something to
\* write
C26_Witness ==
  /\ pc = "done"
  /\ state.metadata.present
  /\ Len(state.rawText) > 0
  /\ Len(state.cleanedText) > 0
  /\ Len(state.sentences) = 2
  /\ Len(state.ruleBasedDetections) = 2
  /\ Len(state.llmDetections) = 1
  /\ Len(state.validatedDetections) = 2
  /\ Len(state.explanations) = 2
  /\ state.articleAnalysis = LeaningAnalysis
  /\ Len(state.output.highlightedText) = 2

(***************************************************************************)
(* Properties of Validate                                                  *)
(***************************************************************************)
\* a validated detection without what validation added to it
Unvalidated(d) ==
  [k \in DOMAIN d \ {"isValidated", "validationReasoning", "validationScore"}
     |-> d[k]]

\* the list this run submitted for validation
Submitted == MergedDetections(state.ruleBasedDetections, state.llmDetections)

\* the positions in the validated list of the detection submitted at m
ValidatedFrom(m) ==
  { v \in 1..Len(state.validatedDetections) :
      Unvalidated(state.validatedDetections[v]) = Submitted[m] }

\* C28: whatever the validation collaborator answers, every validated
\* detection is one of the submitted detections, each submitted detection
\* is validated at most once, and so the validated list is not longer than
\* the submitted list.
C28_ValidatedWithinSubmitted ==
  Ran("validation") =>
    /\ \A v \in 1..Len(state.validatedDetections) :
         \E m \in 1..Len(Submitted) : v \in ValidatedFrom(m)
    /\ \A m \in 1..Len(Submitted) : Cardinality(ValidatedFrom(m)) <= 1
    /\ Len(state.validatedDetections) <= Len(Submitted)

\* what does hold: every validated detection is one of the submitted
\* detections, marked validated
ValidatedAreSubmitted ==
  Ran("validation") =>
    \A v \in 1..Len(state.validatedDetections) :
      /\ \E m \in 1..Len(Submitted) : v \in ValidatedFrom(m)
      /\ state.validatedDetections[v].isValidated

\* C29: Validate merges no duplicates: the list submitted for validation
\* has one entry for each rule-based detection and one for each LLM
\* detection, each marked rule-based or llm, and every validated detection
\* is marked rule-based or llm, never both.
C29_NoMergingOfDuplicates ==
  Ran("validation") =>
    /\ Len(Submitted) = Cardinality(Positions(state.ruleBasedDetections))
                          + Len(state.llmDetections)
    /\ \A m \in 1..Len(Submitted) :
         Submitted[m].sourceDetector =
           IF m <= Cardinality(Positions(state.ruleBasedDetections))
           THEN "rule-based" ELSE "llm"
    /\ \A v \in 1..Len(state.validatedDetections) :
         state.validatedDetections[v].sourceDetector \in {"rule-based", "llm"}

\* both detectors reported Confirmation Bias for the same sentence, and the
\* returned output holds it twice
C29_Witness ==
  /\ pc = "done"
  /\ Len(state.output.detections) = 2
  /\ state.output.detections[1].name = state.output.detections[2].name
  /\ state.output.detections[1].sentence = state.output.detections[2].sentence
  /\ state.output.detections[1].sourceDetector = "rule-based"
  /\ state.output.detections[2].sourceDetector = "llm"

(***************************************************************************)
(* Properties of the highlighted segments                                  *)
(***************************************************************************)
\* the positions of the validated detections whose sentence is in the text
Locatable ==
  { v \in 1..Len(state.validatedDetections) :
      Occurrences(state.rawText, state.validatedDetections[v].sentence) # {} }

\* C30: the output holds every validated detection, and one segment for
\* each of them whose sentence occurs in the raw text, none for the
\* others; a segment holds a single detection, so detections on the same
\* sentence get a segment each, with equal startIndex.
C30_OneSegmentPerLocatedDetection ==
  (pc = "done") =>
    LET validated == state.validatedDetections
        segments  == state.output.highlightedText
    IN  /\ state.output.detections = validated
        /\ Len(segments) = Cardinality(Locatable)
        /\ Len(segments) <= Len(validated)
        /\ \A s \in 1..Len(segments) :
             /\ Len(segments[s].detections) = 1
             /\ \E v \in Locatable : segments[s].detections[1] = validated[v]
        /\ \A v \in Locatable :
             Cardinality({ s \in 1..Len(segments) :
                             segments[s].detections = <<validated[v]>> })
               = Cardinality({ w \in Locatable : validated[w] = validated[v] })
        /\ \A s, t \in 1..Len(segments) :
             segments[s].text = segments[t].text
               => segments[s].startIndex = segments[t].startIndex

\* three validated detections: two on equal sentences, which get a segment
\* each at the same startIndex, and one whose sentence is not in the text,
\* which gets none
C30_Witness ==
  /\ pc = "done"
  /\ Len(state.validatedDetections) = 3
  /\ Cardinality(Locatable) = 2
  /\ Len(state.output.detections) = 3
  /\ Len(state.output.highlightedText) = 2
  /\ state.output.highlightedText[1].startIndex
       = state.output.highlightedText[2].startIndex
  /\ state.output.highlightedText[1].detections
       # state.output.highlightedText[2].detections

====
